---- MODULE Spec2Model ----
(***************************************************************************)
(* Gesture-driven sword state machine of the LightsaberAR component        *)
(* (src/unnamed/part_000) with the hand measurements of                    *)
(* src/utils/geometry.ts.                                                  *)
(*                                                                         *)
(* Units.  Time is in milliseconds (Date.now()).  sword progress is kept   *)
(* in units of 1/400, so that 1 is FULL_PROGRESS = 400, the per-frame      *)
(* steps 0.05 and 0.1 are 20 and 40, and the casting map                   *)
(* (dist - 0.15) / (0.55 - 0.15) of a hand distance given in hundredths    *)
(* is the integer 10 * (dist - 15).  Lengths are in hundredths of the      *)
(* normalized frame.                                                       *)
(*                                                                         *)
(* A hand of a frame is the record [handedness, fist]: its handedness      *)
(* label and the value isFist gives for its landmarks.  The geometric      *)
(* tests of a frame (blade against blade, blade against hit box, blade     *)
(* against enemy box) are inputs of the frame: the frame's landmarks       *)
(* decide them and the state machine only reads their results.             *)
(***************************************************************************)
EXTENDS Integers, Sequences, FiniteSets, TLC

VARIABLES
    gameMode,            \* useState gameMode
    now,                 \* Date.now() of the last frame
    \* solo refs
    gameStateRef, swordProgressRef, swordHandRef, lastFistTimeRef,
    trailHistoryRef,     \* number of samples held by trailHistoryRef.current
    isGameActiveRef, enemiesRef, score, lastEnemySpawnTime, lastNodTriggerTime,
    \* duel refs
    duelStateRef, duelWinner, p1Hp, p2Hp, player1Ref, player2Ref,
    \* what the last step was and what the last frame emitted and saw
    lastOp,              \* "init", "solo", "duel" or "toggle"
    startEvt,            \* the last frame started the match (its two start bursts)
    clashEvt,            \* the last frame raised a blade clash
    hitEvt,              \* the players whose hp the last frame lowered
    grip,                \* actor -> its bound hand was present and a fist in the last frame
    gripTime,            \* actor -> timestamp of the last such frame
    dropTime,            \* player -> timestamp of the last frame that lowered its hp
    resetSince,          \* player -> resetGame ran since that frame
    seen,                \* actor -> the hands the last frame gave it
    segEvt,              \* the actors for which the last frame produced a sword segment
    distEvt,             \* the hand distance the last solo frame measured, 0 if none
    killed,              \* enemies the last frame removed because the sword hit them
    fled,                \* enemies the last frame removed because they left the area
    igniteEvt,           \* actor -> ignition bursts the last frame requested at its hilt
    dissolve,            \* actor -> [n, from]: the frames that found it Dissolving since
                         \* it last began to dissolve, and its progress when it began
    \* a geometry helper called on its own
    geoIn,               \* the arguments of the call
    geoOut               \* << >> while the call is pending, then <<what it returned>>

vars == <<gameMode, now, gameStateRef, swordProgressRef, swordHandRef,
          lastFistTimeRef, trailHistoryRef, isGameActiveRef, enemiesRef, score,
          lastEnemySpawnTime, lastNodTriggerTime, duelStateRef, duelWinner,
          p1Hp, p2Hp, player1Ref, player2Ref, lastOp, startEvt, clashEvt, hitEvt,
          grip,
          gripTime, dropTime, resetSince, seen, segEvt, distEvt, killed, fled,
          igniteEvt, dissolve, geoIn, geoOut>>

soloVars == <<gameStateRef, swordProgressRef, swordHandRef, lastFistTimeRef,
              trailHistoryRef, isGameActiveRef, enemiesRef, score,
              lastEnemySpawnTime, lastNodTriggerTime>>

duelVars == <<duelStateRef, duelWinner, p1Hp, p2Hp, player1Ref, player2Ref>>

----------------------------------------------------------------------------
(* Enumerations GameMode and GameState, hand labels *)

SOLO == "SOLO"
DUEL == "DUEL"

IDLE == "IDLE"
HILT_FORMING == "HILT"
CASTING == "CASTING"
ACTIVE == "ACTIVE"
DISSOLVING == "DISSOLVING"
DUEL_WAITING == "DUEL_WAITING"
DUEL_FIGHTING == "DUEL_FIGHTING"
DUEL_ENDED == "DUEL_ENDED"

SwordStates == {IDLE, HILT_FORMING, CASTING, ACTIVE, DISSOLVING}

Left == "Left"
Right == "Right"
null == "null"

Handedness == {Left, Right}
Hand == [handedness : Handedness, fist : BOOLEAN]

----------------------------------------------------------------------------
(* Program constants *)

FULL_PROGRESS == 400
DUEL_AUTO_IGNITE_TIME == 400
FIST_LOSS_GRACE_PERIOD == 2500
SOLO_GRACE_PERIOD == 500
CASTING_START_DIST == 15
CASTING_COMPLETE_DIST == 55
SWORD_LENGTH_SOLO == 62
SWORD_LENGTH_DUEL == 38
HIT_COOLDOWN == 500
HIT_DAMAGE == 8
MAX_HP == 100
TRAIL_MAX == 12
NOD_COOLDOWN == 1500
ENEMY_SPAWN_INTERVAL == 1200
ENEMY_START_Y == -100
ENEMY_EXIT_Y == 1100

\* 0.05 and 0.1 of full progress
HiltStepDuel == (5 * FULL_PROGRESS) \div 100
DissolveStepDuel == (10 * FULL_PROGRESS) \div 100
DissolveStepSolo == (5 * FULL_PROGRESS) \div 100

Max(a, b) == IF a >= b THEN a ELSE b
Min(a, b) == IF a <= b THEN a ELSE b

----------------------------------------------------------------------------
(* Geometry helpers.  A point is <<x, y>> with integer coordinates, in      *)
(* units of 10 render units where a length is compared with THRESHOLD, so   *)
(* that the 50 of the clash test is 5.  The helpers divide; the model keeps *)
(* a quotient n / d as the pair of n and d and compares exactly, as real    *)
(* arithmetic does.                                                         *)

THRESHOLD == 5

Sq(x) == x * x

\* n / d >= 0 && n / d <= 1, for d # 0
InUnit(n, d) == IF d > 0 THEN 0 <= n /\ n <= d ELSE d <= n /\ n <= 0

\* mutant of distToSegment: no test for l2 === 0
distToSegmentNoGuard(p, v, w) ==
    LET l2 == Sq(w[1] - v[1]) + Sq(w[2] - v[2])
        dot == (p[1] - v[1]) * (w[1] - v[1]) + (p[2] - v[2]) * (w[2] - v[2])
        t == Max(0, Min(l2, dot))
        ex == (p[1] - v[1]) * l2 - t * (w[1] - v[1])
        ey == (p[2] - v[2]) * l2 - t * (w[2] - v[2])
    IN  [n |-> Sq(ex) + Sq(ey), d |-> Sq(l2)]

\* distToSegment(p, v, w), squared: the quotient n / d
distToSegment(p, v, w) ==
    LET l2 == Sq(w[1] - v[1]) + Sq(w[2] - v[2])
        dot == (p[1] - v[1]) * (w[1] - v[1]) + (p[2] - v[2]) * (w[2] - v[2])
        t == Max(0, Min(l2, dot))          \* t * l2, clamped to [0, 1]
        ex == (p[1] - v[1]) * l2 - t * (w[1] - v[1])    \* (p.x - px) * l2
        ey == (p[2] - v[2]) * l2 - t * (w[2] - v[2])    \* (p.y - py) * l2
    IN  IF l2 = 0 THEN [n |-> Sq(p[1] - v[1]) + Sq(p[2] - v[2]), d |-> 1]
        ELSE [n |-> Sq(ex) + Sq(ey), d |-> Sq(l2)]

\* distToSegment(p, v, w) < d
distToSegmentBelow(p, v, w, d) ==
    LET r == distToSegment(p, v, w) IN r.n < Sq(d) * r.d

\* mutant of lineLine: only the rectangle edge's parameter is tested
lineLineHalf(x1, y1, x2, y2, x3, y3, x4, y4) ==
    LET denom == (y4 - y3) * (x2 - x1) - (x4 - x3) * (y2 - y1)
        ub == (x2 - x1) * (y1 - y3) - (y2 - y1) * (x1 - x3)
    IN  IF denom = 0 THEN FALSE ELSE InUnit(ub, denom)

\* lineLine of lineRectCollide
lineLine(x1, y1, x2, y2, x3, y3, x4, y4) ==
    LET denom == (y4 - y3) * (x2 - x1) - (x4 - x3) * (y2 - y1)
        ua == (x4 - x3) * (y1 - y3) - (y4 - y3) * (x1 - x3)
        ub == (x2 - x1) * (y1 - y3) - (y2 - y1) * (x1 - x3)
    IN  IF denom = 0 THEN FALSE
        ELSE InUnit(ua, denom) /\ InUnit(ub, denom)

inside(x, y, rx, ry, rw, rh) ==
    x >= rx /\ x <= rx + rw /\ y >= ry /\ y <= ry + rh

lineRectCollide(x1, y1, x2, y2, rx, ry, rw, rh) ==
    LET right == rx + rw
        bottom == ry + rh
    IN  \/ inside(x1, y1, rx, ry, rw, rh)
        \/ inside(x2, y2, rx, ry, rw, rh)
        \/ lineLine(x1, y1, x2, y2, rx, ry, right, ry)
        \/ lineLine(x1, y1, x2, y2, rx, bottom, right, bottom)
        \/ lineLine(x1, y1, x2, y2, rx, ry, rx, bottom)
        \/ lineLine(x1, y1, x2, y2, right, ry, right, bottom)

\* an optional point: << >> is null, <<pt>> holds the point pt
noPoint == << >>
IsPoint(r) == r # noPoint

\* mutant of getLineIntersection: the range of t is not tested
getLineIntersectionLoose(p0, p1, p2, p3) ==
    LET s1_x == p1[1] - p0[1]
        s1_y == p1[2] - p0[2]
        s2_x == p3[1] - p2[1]
        s2_y == p3[2] - p2[2]
        denom == (0 - s2_x) * s1_y + s1_x * s2_y
        sn == (0 - s1_y) * (p0[1] - p2[1]) + s1_x * (p0[2] - p2[2])
        tn == s2_x * (p0[2] - p2[2]) - s2_y * (p0[1] - p2[1])
    IN  IF denom = 0 THEN noPoint
        ELSE IF InUnit(sn, denom)
             THEN <<[xn |-> p0[1] * denom + tn * s1_x,
                     yn |-> p0[2] * denom + tn * s1_y,
                     d |-> denom, sn |-> sn, tn |-> tn]>>
             ELSE noPoint

\* getLineIntersection: null, or the point (xn / d, yn / d) with the
\* parameters s = sn / d and t = tn / d it was found with
getLineIntersection(p0, p1, p2, p3) ==
    LET s1_x == p1[1] - p0[1]
        s1_y == p1[2] - p0[2]
        s2_x == p3[1] - p2[1]
        s2_y == p3[2] - p2[2]
        denom == (0 - s2_x) * s1_y + s1_x * s2_y
        sn == (0 - s1_y) * (p0[1] - p2[1]) + s1_x * (p0[2] - p2[2])
        tn == s2_x * (p0[2] - p2[2]) - s2_y * (p0[1] - p2[1])
    IN  IF denom = 0 THEN noPoint
        ELSE IF InUnit(sn, denom) /\ InUnit(tn, denom)
             THEN <<[xn |-> p0[1] * denom + tn * s1_x,
                     yn |-> p0[2] * denom + tn * s1_y,
                     d |-> denom, sn |-> sn, tn |-> tn]>>
             ELSE noPoint

\* a blade's tip as a collision point
TipPoint(p) == <<[xn |-> p[1], yn |-> p[2], d |-> 1, sn |-> 0, tn |-> 0]>>

\* mutant of collisionPt: only the first blade's tip is tried
collisionPtOneTip(s1, s2) ==
    LET pt == getLineIntersection(s1.p1, s1.p2, s2.p1, s2.p2) IN
    IF IsPoint(pt) THEN pt
    ELSE IF distToSegmentBelow(s1.p2, s2.p1, s2.p2, THRESHOLD) THEN TipPoint(s1.p2)
    ELSE noPoint

\* the clash test of the duel branch on the segments s1 and s2 of the two
\* blades (p1 the hilt, p2 the tip): the collision point, or null
collisionPt(s1, s2) ==
    LET pt == getLineIntersection(s1.p1, s1.p2, s2.p1, s2.p2) IN
    IF IsPoint(pt) THEN pt
    ELSE IF distToSegmentBelow(s1.p2, s2.p1, s2.p2, THRESHOLD) THEN TipPoint(s1.p2)
    ELSE IF distToSegmentBelow(s2.p2, s1.p1, s1.p2, THRESHOLD) THEN TipPoint(s2.p2)
    ELSE noPoint

----------------------------------------------------------------------------
(* isFist of src/utils/geometry.ts.  The landmarks of a hand are a function *)
(* from 0..20 to points; getDistance is compared through its square.        *)

\* getDistance(p1, p2) squared
getDistanceSq(p1, p2) == Sq(p2[1] - p1[1]) + Sq(p2[2] - p1[2])

\* the tip and pip landmark of the fingers isFist looks at, index to pinky
fingers == {[tip |-> 8, pip |-> 6], [tip |-> 12, pip |-> 10],
            [tip |-> 16, pip |-> 14], [tip |-> 20, pip |-> 18]}

\* distTip < distPip || distTip < distMcp * 1.2, all three measured from from
Curled(landmarks, f, from) ==
    LET tip == landmarks[f.tip]
        pip == landmarks[f.pip]
        mcp == landmarks[f.pip - 1]
    IN  \/ getDistanceSq(tip, from) < getDistanceSq(pip, from)
        \/ 25 * getDistanceSq(tip, from) < 36 * getDistanceSq(mcp, from)

\* mutant of isFist: distances are measured from the frame's origin
isFistFromOrigin(landmarks) ==
    Cardinality({f \in fingers : Curled(landmarks, f, <<0, 0>>)}) >= 3

isFist(landmarks) ==
    LET wrist == landmarks[0] IN
    Cardinality({f \in fingers : Curled(landmarks, f, wrist)}) >= 3

----------------------------------------------------------------------------
(* Array.prototype.find over the hands of a frame: the index of the first   *)
(* hand that matches, 0 when there is none.                                 *)

FindHand(hands, hd) ==
    IF \E i \in 1..Len(hands) : hands[i].handedness = hd
    THEN CHOOSE i \in 1..Len(hands) :
            /\ hands[i].handedness = hd
            /\ \A j \in 1..(i - 1) : hands[j].handedness # hd
    ELSE 0

FindOtherHand(hands, hd) ==
    IF \E i \in 1..Len(hands) : hands[i].handedness # hd
    THEN CHOOSE i \in 1..Len(hands) :
            /\ hands[i].handedness # hd
            /\ \A j \in 1..(i - 1) : hands[j].handedness = hd
    ELSE 0

FindFist(hands) ==
    IF \E i \in 1..Len(hands) : hands[i].fist
    THEN CHOOSE i \in 1..Len(hands) :
            /\ hands[i].fist
            /\ \A j \in 1..(i - 1) : ~hands[j].fist
    ELSE 0

\* the hands of a frame that carry the bound handedness
CountHands(hands, hd) == Cardinality({i \in 1..Len(hands) : hands[i].handedness = hd})

----------------------------------------------------------------------------
(* drawSaber: the part that decides the returned segment and edits the      *)
(* trail.  The result is [seg |-> a segment is returned, trail |-> the      *)
(* length of the trail afterwards].                                         *)

\* length of the blade in hundredths, times FULL_PROGRESS
BladeLength(swordState, progress, maxLength) ==
    IF swordState = HILT_FORMING THEN 0
    ELSE IF swordState \in {CASTING, DISSOLVING} THEN maxLength * progress
    ELSE maxLength * FULL_PROGRESS

\* trail.unshift(sample); if (trail.length > 12) trail.pop()
TrailPush(trail) == IF trail + 1 > TRAIL_MAX THEN TRAIL_MAX ELSE trail + 1

drawSaber(swordState, progress, trail, maxLength) ==
    IF swordState = IDLE THEN [seg |-> FALSE, trail |-> trail]
    ELSE IF BladeLength(swordState, progress, maxLength) > 1 * FULL_PROGRESS
         THEN [seg |-> TRUE,
               trail |-> IF swordState = ACTIVE THEN TrailPush(trail) ELSE 0]
         ELSE [seg |-> FALSE, trail |-> trail]

\* drawSaber once for every hand of the frame that carries the bound handedness
RECURSIVE DrawAll(_, _, _, _, _)
DrawAll(n, swordState, progress, trail, maxLength) ==
    IF n = 0 THEN trail
    ELSE DrawAll(n - 1, swordState, progress,
                 drawSaber(swordState, progress, trail, maxLength).trail, maxLength)

----------------------------------------------------------------------------
(* processDuelPlayer *)

InitPlayer ==
    [hp |-> MAX_HP, swordState |-> IDLE, swordProgress |-> 0, swordHand |-> null,
     lastFistTime |-> 0, trail |-> 0, lastHitTime |-> 0]

DuelIdle(player, myHands, t) ==
    LET f == FindFist(myHands) IN
    IF f # 0
    THEN [player EXCEPT !.swordHand = myHands[f].handedness,
                        !.swordState = HILT_FORMING,
                        !.lastFistTime = t,
                        !.swordProgress = 0]
    ELSE player

\* mutant of DuelHiltForming: the auto-ignite timer is never read and a held
\* hilt stays as it is
DuelHiltFormingNoTimer(player, held, t) ==
    IF held
    THEN player
    ELSE [player EXCEPT !.swordState = IDLE, !.swordHand = null, !.swordProgress = 0]

DuelHiltForming(player, held, t) ==
    IF held
    THEN IF t - player.lastFistTime > DUEL_AUTO_IGNITE_TIME
         THEN [player EXCEPT !.swordState = ACTIVE, !.swordProgress = FULL_PROGRESS]
         ELSE [player EXCEPT !.swordProgress = player.swordProgress + HiltStepDuel]
    ELSE [player EXCEPT !.swordState = IDLE, !.swordHand = null, !.swordProgress = 0]

DuelActive(player, held, t) ==
    LET lf == IF held THEN t ELSE player.lastFistTime IN
    [player EXCEPT !.lastFistTime = lf,
                   !.swordState = IF t - lf > FIST_LOSS_GRACE_PERIOD
                                  THEN DISSOLVING ELSE ACTIVE]

\* mutant of DuelDissolving: the last step is not taken
DuelDissolvingStall(player) ==
    LET p == player.swordProgress - DissolveStepDuel IN
    IF p <= 0 THEN player ELSE [player EXCEPT !.swordProgress = p]

DuelDissolving(player) ==
    LET p == player.swordProgress - DissolveStepDuel IN
    IF p <= 0
    THEN [player EXCEPT !.swordProgress = 0, !.swordState = IDLE, !.swordHand = null]
    ELSE [player EXCEPT !.swordProgress = p]

processDuelPlayer(player, myHands, t) ==
    LET sh == FindHand(myHands, player.swordHand)
        held == sh # 0 /\ myHands[sh].fist
    IN  CASE player.swordState = IDLE -> DuelIdle(player, myHands, t)
          [] player.swordState = HILT_FORMING -> DuelHiltForming(player, held, t)
          [] player.swordState = ACTIVE -> DuelActive(player, held, t)
          [] player.swordState = DISSOLVING -> DuelDissolving(player)
          [] OTHER -> player

\* mutant of DuelBursts: every frame of a held hilt requests the burst
DuelBurstsWhileForming(player, myHands, t) ==
    LET sh == FindHand(myHands, player.swordHand) IN
    IF player.swordState = HILT_FORMING /\ sh # 0 /\ myHands[sh].fist
    THEN 1 ELSE 0

\* the 20-particle shockwaves processDuelPlayer requests at the hilt
DuelBursts(player, myHands, t) ==
    LET sh == FindHand(myHands, player.swordHand) IN
    IF /\ player.swordState = HILT_FORMING
       /\ sh # 0 /\ myHands[sh].fist
       /\ t - player.lastFistTime > DUEL_AUTO_IGNITE_TIME
    THEN 1 ELSE 0

\* renderPlayer: the segment of the player's blade and the trail after drawing
renderPlayer(p, myHands) ==
    LET n == CountHands(myHands, p.swordHand) IN
    [seg |-> n > 0 /\ drawSaber(p.swordState, p.swordProgress, p.trail,
                                SWORD_LENGTH_DUEL).seg,
     player |-> [p EXCEPT !.trail = DrawAll(n, p.swordState, p.swordProgress,
                                            p.trail, SWORD_LENGTH_DUEL)]]

----------------------------------------------------------------------------
(* checkHit: saberSeg is whether the attacker has a segment, collide the    *)
(* value of lineRectCollide for it and the target's hit box.                *)

\* mutant of HitLands: no invulnerability window
HitLandsNoCooldown(saberSeg, collide, targetPlayer, t) == saberSeg /\ collide

HitLands(saberSeg, collide, targetPlayer, t) ==
    /\ saberSeg
    /\ ~(t - targetPlayer.lastHitTime < HIT_COOLDOWN)
    /\ collide

\* mutant of Damage: the hit is not clamped at 0
DamageUnclamped(hp) == hp - HIT_DAMAGE

Damage(hp) == Max(0, hp - HIT_DAMAGE)

checkHit(saberSeg, collide, targetPlayer, t) ==
    IF HitLands(saberSeg, collide, targetPlayer, t)
    THEN [targetPlayer EXCEPT !.hp = Damage(targetPlayer.hp), !.lastHitTime = t]
    ELSE targetPlayer

----------------------------------------------------------------------------
(* processSoloPlayer, on the record [state, progress, hand, lastFist] of    *)
(* gameStateRef, swordProgressRef, swordHandRef and lastFistTimeRef.  dist  *)
(* is the distance of the centers of the sword hand and the force hand.     *)

SoloActor ==
    [state |-> gameStateRef, progress |-> swordProgressRef,
     hand |-> swordHandRef, lastFist |-> lastFistTimeRef]

CastingProgress(dist) ==
    Min(((dist - CASTING_START_DIST) * FULL_PROGRESS)
            \div (CASTING_COMPLETE_DIST - CASTING_START_DIST),
        FULL_PROGRESS)

SoloIdle(a, hands, t) ==
    LET f == FindFist(hands) IN
    IF f # 0
    THEN [a EXCEPT !.hand = hands[f].handedness, !.state = HILT_FORMING, !.lastFist = t]
    ELSE a

SoloGrace(a, held, t) ==
    LET lf == IF held THEN t ELSE a.lastFist IN
    [a EXCEPT !.lastFist = lf,
              !.state = IF t - lf > SOLO_GRACE_PERIOD THEN DISSOLVING ELSE a.state]

\* mutant of SoloStartCasting: the force hand is not required
SoloStartCastingAlone(a, both, dist) ==
    IF a.state = HILT_FORMING /\ dist < CASTING_START_DIST
    THEN [a EXCEPT !.state = CASTING]
    ELSE a

SoloStartCasting(a, both, dist) ==
    IF a.state = HILT_FORMING /\ both /\ dist < CASTING_START_DIST
    THEN [a EXCEPT !.state = CASTING]
    ELSE a

\* mutant of SoloCasting: the mapped progress is not floored at 0
SoloCastingNoFloor(a, both, dist) ==
    IF a.state = CASTING /\ both
    THEN [a EXCEPT !.progress = CastingProgress(dist),
                   !.state = IF CastingProgress(dist) >= FULL_PROGRESS
                             THEN ACTIVE ELSE CASTING]
    ELSE a

SoloCasting(a, both, dist) ==
    IF a.state = CASTING /\ both
    THEN [a EXCEPT !.progress = Max(0, CastingProgress(dist)),
                   !.state = IF CastingProgress(dist) >= FULL_PROGRESS
                             THEN ACTIVE ELSE CASTING]
    ELSE a

\* mutant of SoloDissolving: the overshoot below 0 is kept
SoloDissolvingNoClamp(a) ==
    LET p == a.progress - DissolveStepSolo IN
    IF p <= 0
    THEN [a EXCEPT !.progress = p, !.state = IDLE, !.hand = null]
    ELSE [a EXCEPT !.progress = p]

SoloDissolving(a) ==
    LET p == a.progress - DissolveStepSolo IN
    IF p <= 0
    THEN [a EXCEPT !.progress = 0, !.state = IDLE, !.hand = null]
    ELSE [a EXCEPT !.progress = p]

processSoloPlayer(a, hands, dist, t) ==
    LET sh == FindHand(hands, a.hand)
        fh == FindOtherHand(hands, a.hand)
        held == sh # 0 /\ hands[sh].fist
        both == sh # 0 /\ fh # 0
    IN  CASE a.state = IDLE -> SoloIdle(a, hands, t)
          [] a.state \in {HILT_FORMING, CASTING, ACTIVE} ->
                SoloCasting(SoloStartCasting(SoloGrace(a, held, t), both, dist),
                            both, dist)
          [] a.state = DISSOLVING -> SoloDissolving(a)
          [] OTHER -> a

\* the 50-particle shockwaves processSoloPlayer requests at the hilt
SoloBursts(a, hands, dist, t) ==
    LET sh == FindHand(hands, a.hand)
        fh == FindOtherHand(hands, a.hand)
        held == sh # 0 /\ hands[sh].fist
        both == sh # 0 /\ fh # 0
        c == SoloStartCasting(SoloGrace(a, held, t), both, dist)
    IN  IF /\ a.state \in {HILT_FORMING, CASTING, ACTIVE}
           /\ c.state = CASTING /\ both
           /\ CastingProgress(dist) >= FULL_PROGRESS
        THEN 1 ELSE 0

----------------------------------------------------------------------------
(* updateSoloGameLogic on the enemy list: an enemy is [y, speed], y and     *)
(* speed in thousandths of the frame height.  hits are the indices of the   *)
(* enemies whose box the sword segment crosses in this frame.               *)

\* mutant of SpawnDue: the spawn interval is not waited for
SpawnDueAtOnce(t) == t - lastEnemySpawnTime > 0

SpawnDue(t) == t - lastEnemySpawnTime > ENEMY_SPAWN_INTERVAL

Spawned(enemies, due, speed) ==
    IF due THEN Append(enemies, [y |-> ENEMY_START_Y, speed |-> speed]) ELSE enemies

EnemyGone(e) == e.y > ENEMY_EXIT_Y

\* mutant of Survivors: an enemy that was hit stays in the collection
SurvivorsKeepHit(enemies, canHit, hits) ==
    LET moved == [i \in 1..Len(enemies) |->
                    [y |-> enemies[i].y + enemies[i].speed,
                     speed |-> enemies[i].speed]]
    IN  SelectSeq(moved, LAMBDA e : ~EnemyGone(e))

Survivors(enemies, canHit, hits) ==
    LET moved == [i \in 1..Len(enemies) |->
                    [y |-> enemies[i].y + enemies[i].speed,
                     speed |-> enemies[i].speed,
                     isHit |-> canHit /\ i \in hits]]
        kept == SelectSeq(moved, LAMBDA e : ~e.isHit /\ ~EnemyGone(e))
    IN  [i \in 1..Len(kept) |-> [y |-> kept[i].y, speed |-> kept[i].speed]]

HitCount(enemies, canHit, hits) ==
    IF canHit THEN Cardinality(hits \cap (1..Len(enemies))) ELSE 0

\* the enemies that were not hit and whose move took them past the exit line
GoneCount(enemies, canHit, hits) ==
    Cardinality({i \in 1..Len(enemies) :
                    /\ ~(canHit /\ i \in hits)
                    /\ enemies[i].y + enemies[i].speed > ENEMY_EXIT_Y})

\* the segment the solo branch hands to updateSoloGameLogic: n is the number
\* of hands of the frame with the bound handedness
SoloSegment(n, state) == n > 0 /\ state \in {ACTIVE, CASTING}

----------------------------------------------------------------------------
(* State after construction (useState / useRef initial values).  Date.now() *)
(* is far from 0, the initial value of the stored timestamps.               *)

Epoch == 10000

Actors == {"solo", "p1", "p2"}

InitState ==
    /\ gameMode = SOLO
    /\ now = Epoch
    /\ gameStateRef = IDLE
    /\ swordProgressRef = 0
    /\ swordHandRef = null
    /\ lastFistTimeRef = 0
    /\ trailHistoryRef = 0
    /\ isGameActiveRef = FALSE
    /\ enemiesRef = << >>
    /\ score = 0
    /\ lastEnemySpawnTime = 0
    /\ lastNodTriggerTime = 0
    /\ duelStateRef = DUEL_WAITING
    /\ duelWinner = null
    /\ p1Hp = MAX_HP
    /\ p2Hp = MAX_HP
    /\ player1Ref = InitPlayer
    /\ player2Ref = InitPlayer
    /\ lastOp = "init"
    /\ startEvt = FALSE
    /\ clashEvt = FALSE
    /\ hitEvt = {}
    /\ grip = [a \in Actors |-> FALSE]
    /\ gripTime = [a \in Actors |-> 0]
    /\ dropTime = [a \in {"p1", "p2"} |-> 0]
    /\ resetSince = [a \in {"p1", "p2"} |-> FALSE]
    /\ seen = [a \in Actors |-> << >>]
    /\ segEvt = {}
    /\ distEvt = 0
    /\ killed = 0
    /\ fled = 0
    /\ igniteEvt = [a \in Actors |-> 0]
    /\ dissolve = [a \in Actors |-> [n |-> 0, from |-> 0]]

\* no helper call is under way
noCall == [kind |-> "none"]
pending == << >>

Init == InitState /\ geoIn = noCall /\ geoOut = pending

----------------------------------------------------------------------------
(* resetGame and toggleMode *)

resetPlayer(p) ==
    [p EXCEPT !.hp = MAX_HP, !.swordState = IDLE, !.swordProgress = 0,
              !.swordHand = null, !.trail = 0, !.lastHitTime = 0, !.lastFistTime = 0]

resetGame ==
    /\ score' = 0
    /\ isGameActiveRef' = FALSE
    /\ gameStateRef' = IDLE
    /\ enemiesRef' = << >>
    /\ duelStateRef' = DUEL_WAITING
    /\ duelWinner' = null
    /\ p1Hp' = MAX_HP
    /\ p2Hp' = MAX_HP
    /\ player1Ref' = resetPlayer(player1Ref)
    /\ player2Ref' = resetPlayer(player2Ref)
    /\ UNCHANGED <<swordProgressRef, swordHandRef, lastFistTimeRef,
                   trailHistoryRef, lastEnemySpawnTime, lastNodTriggerTime>>

toggleMode ==
    /\ gameMode' = IF gameMode = SOLO THEN DUEL ELSE SOLO
    /\ resetGame
    /\ lastOp' = "toggle"
    /\ startEvt' = FALSE
    /\ clashEvt' = FALSE
    /\ hitEvt' = {}
    /\ grip' = [a \in Actors |-> FALSE]
    /\ gripTime' = [a \in Actors |-> 0]
    /\ resetSince' = [a \in {"p1", "p2"} |-> TRUE]
    /\ seen' = [a \in Actors |-> << >>]
    /\ segEvt' = {}
    /\ distEvt' = 0
    /\ killed' = 0
    /\ fled' = 0
    /\ igniteEvt' = [a \in Actors |-> 0]
    /\ dissolve' = [a \in Actors |-> [n |-> 0, from |-> 0]]
    /\ UNCHANGED <<now, dropTime, geoIn, geoOut>>

----------------------------------------------------------------------------
(* Count of the frames an actor spends in the DISSOLVING case of its        *)
(* process function: d is the count so far, before and after the actor's    *)
(* state at the start and at the end of the frame.                          *)

DissolveCount(d, before, after, progressAfter) ==
    IF before = DISSOLVING THEN [d EXCEPT !.n = d.n + 1]
    ELSE IF after = DISSOLVING THEN [n |-> 0, from |-> progressAfter]
    ELSE [n |-> 0, from |-> 0]

----------------------------------------------------------------------------
(* The frames of drawLoop.  Held(state, bound, hands): the frame shows the  *)
(* actor's grip, that is the bound hand as a fist, or, for an Idle actor,   *)
(* the fist that binds.                                                     *)

Held(state, bound, hands) ==
    IF state = IDLE THEN FindFist(hands) # 0
    ELSE FindHand(hands, bound) # 0 /\ hands[FindHand(hands, bound)].fist

\* detectSoloNod: nod is what the nose history shows, given a face
NodFires(nod, t) == nod /\ ~(t - lastNodTriggerTime < NOD_COOLDOWN)

\* solo branch of drawLoop
SoloFrameIn(Dts, maxT, Hs, Dists, Nods, Speeds) ==
    /\ gameMode = SOLO
    /\ \E dt \in Dts, hands \in Hs, nod \in Nods :
        \E t \in {now + dt} :
        \E fires \in {NodFires(nod, t)} :
        \E active \in {IF fires THEN ~isGameActiveRef ELSE isGameActiveRef} :
        \E both \in {/\ FindHand(hands, swordHandRef) # 0
                     /\ FindOtherHand(hands, swordHandRef) # 0} :
        \E held \in {Held(gameStateRef, swordHandRef, hands)} :
        /\ t <= maxT
        /\ \E dist \in (IF both /\ gameStateRef \in {HILT_FORMING, CASTING}
                        THEN Dists ELSE {0}) :
            \E a \in {processSoloPlayer(SoloActor, hands, dist, t)} :
            \E n \in {CountHands(hands, a.hand)} :
            \E seg \in {SoloSegment(n, a.state)} :
            \E canHit \in {seg /\ a.state = ACTIVE} :
            \E due \in {active /\ SpawnDue(t)} :
            \E speed \in (IF due THEN Speeds ELSE {0}) :
            \E spawned \in {Spawned(IF fires /\ ~active THEN << >> ELSE enemiesRef,
                                    due, speed)} :
            \E hits \in (IF active /\ canHit
                         THEN SUBSET (1..Len(spawned)) ELSE {{}}) :
              /\ now' = t
              /\ gameStateRef' = a.state
              /\ swordProgressRef' = a.progress
              /\ swordHandRef' = a.hand
              /\ lastFistTimeRef' = a.lastFist
              /\ trailHistoryRef' = DrawAll(n, a.state, a.progress,
                                            trailHistoryRef, SWORD_LENGTH_SOLO)
              /\ isGameActiveRef' = active
              /\ lastNodTriggerTime' = IF fires THEN t ELSE lastNodTriggerTime
              /\ lastEnemySpawnTime' = IF due THEN t ELSE lastEnemySpawnTime
              /\ enemiesRef' = IF active THEN Survivors(spawned, canHit, hits)
                               ELSE spawned
              /\ score' = (IF fires /\ active THEN 0 ELSE score)
                          + (IF active THEN HitCount(spawned, canHit, hits) ELSE 0)
              /\ lastOp' = "solo"
              /\ startEvt' = FALSE
              /\ clashEvt' = FALSE
              /\ hitEvt' = {}
              /\ grip' = [a2 \in Actors |-> a2 = "solo" /\ held]
              /\ gripTime' = IF held THEN [gripTime EXCEPT !["solo"] = t]
                             ELSE gripTime
              /\ seen' = [a2 \in Actors |-> IF a2 = "solo" THEN hands ELSE << >>]
              /\ segEvt' = IF seg THEN {"solo"} ELSE {}
              /\ distEvt' = dist
              /\ killed' = IF active THEN HitCount(spawned, canHit, hits) ELSE 0
              /\ fled' = IF active THEN GoneCount(spawned, canHit, hits) ELSE 0
              /\ igniteEvt' = [a2 \in Actors |->
                                  IF a2 = "solo"
                                  THEN SoloBursts(SoloActor, hands, dist, t) ELSE 0]
              /\ dissolve' = [dissolve EXCEPT
                                 !["solo"] = DissolveCount(@, gameStateRef, a.state,
                                                           a.progress)]
              /\ UNCHANGED <<gameMode, duelVars, dropTime, resetSince, geoIn, geoOut>>

\* mutant of MatchStarts: one Active sword is enough
MatchStartsEither ==
    /\ duelStateRef = DUEL_WAITING
    /\ (player1Ref.swordState = ACTIVE \/ player2Ref.swordState = ACTIVE)

\* start check of the duel branch
MatchStarts ==
    /\ duelStateRef = DUEL_WAITING
    /\ player1Ref.swordState = ACTIVE
    /\ player2Ref.swordState = ACTIVE

\* mutant of Fighting: the collision block is not guarded
FightingAlways(start) == TRUE

\* mutant of Fighting: the collision block runs whenever the match has started
FightingNotWaiting(start) == start \/ duelStateRef # DUEL_WAITING

\* guard of the collision block: the match state after the start check
Fighting(start) == start \/ duelStateRef = DUEL_FIGHTING

\* mutant of Ends: a hit that leaves exactly 0 does not end the match
EndsBelowZero(hit, targetPlayer) == hit /\ targetPlayer.hp < 0

\* checkHit ends the match: the hit landed and left the target without hp
Ends(hit, targetPlayer) == hit /\ targetPlayer.hp <= 0

Started(player, start) == IF start THEN [player EXCEPT !.hp = MAX_HP] ELSE player

\* duel branch of drawLoop, on the hand lists p1Hands and p2Hands
DuelFrameCore(Dts, maxT, H1, H2) ==
    /\ gameMode = DUEL
    /\ \E dt \in Dts, p1Hands \in H1, p2Hands \in H2 :
        \E t \in {now + dt} :
        \E start \in {MatchStarts} :
        \E fighting \in {Fighting(start)} :
        \E held1 \in {Held(player1Ref.swordState, player1Ref.swordHand, p1Hands)} :
        \E held2 \in {Held(player2Ref.swordState, player2Ref.swordHand, p2Hands)} :
        \E r1 \in {renderPlayer(processDuelPlayer(Started(player1Ref, start),
                                                  p1Hands, t), p1Hands)} :
        \E r2 \in {renderPlayer(processDuelPlayer(Started(player2Ref, start),
                                                  p2Hands, t), p2Hands)} :
        /\ t <= maxT
        /\ \E cross \in (IF fighting /\ r1.seg /\ r2.seg THEN BOOLEAN ELSE {FALSE}),
              c12 \in (IF fighting /\ r1.seg THEN BOOLEAN ELSE {FALSE}),
              c21 \in (IF fighting /\ r2.seg THEN BOOLEAN ELSE {FALSE}) :
            \E hit2 \in {fighting /\ HitLands(r1.seg, c12, r2.player, t)} :
            \E hit1 \in {fighting /\ HitLands(r2.seg, c21, r1.player, t)} :
            \E q2 \in {IF fighting THEN checkHit(r1.seg, c12, r2.player, t)
                       ELSE r2.player} :
            \E q1 \in {IF fighting THEN checkHit(r2.seg, c21, r1.player, t)
                       ELSE r1.player} :
            \E ended2 \in {Ends(hit2, q2)} :
            \E ended1 \in {Ends(hit1, q1)} :
                /\ now' = t
                /\ player1Ref' = q1
                /\ player2Ref' = q2
                /\ duelStateRef' = IF ended1 \/ ended2 THEN DUEL_ENDED
                                   ELSE IF start THEN DUEL_FIGHTING ELSE duelStateRef
                /\ duelWinner' = IF ended1 THEN 2
                                 ELSE IF ended2 THEN 1 ELSE duelWinner
                /\ p1Hp' = IF hit1 /\ ~ended1 THEN q1.hp
                           ELSE IF start THEN MAX_HP ELSE p1Hp
                /\ p2Hp' = IF hit2 /\ ~ended2 THEN q2.hp
                           ELSE IF start THEN MAX_HP ELSE p2Hp
                /\ lastOp' = "duel"
                /\ startEvt' = start
                /\ clashEvt' = cross
                /\ hitEvt' = (IF hit1 THEN {"p1"} ELSE {}) \cup
                             (IF hit2 THEN {"p2"} ELSE {})
                /\ grip' = [a \in Actors |-> \/ a = "p1" /\ held1
                                             \/ a = "p2" /\ held2]
                /\ gripTime' = [gripTime EXCEPT
                                  !["p1"] = IF held1 THEN t ELSE @,
                                  !["p2"] = IF held2 THEN t ELSE @]
                /\ dropTime' = [dropTime EXCEPT
                                  !["p1"] = IF q1.hp < player1Ref.hp THEN t ELSE @,
                                  !["p2"] = IF q2.hp < player2Ref.hp THEN t ELSE @]
                /\ resetSince' = [resetSince EXCEPT
                                  !["p1"] = IF q1.hp < player1Ref.hp THEN FALSE ELSE @,
                                  !["p2"] = IF q2.hp < player2Ref.hp THEN FALSE ELSE @]
                /\ seen' = [a \in Actors |-> IF a = "p1" THEN p1Hands
                                               ELSE IF a = "p2" THEN p2Hands
                                               ELSE << >>]
                /\ segEvt' = (IF r1.seg THEN {"p1"} ELSE {}) \cup
                             (IF r2.seg THEN {"p2"} ELSE {})
                /\ distEvt' = 0
                /\ killed' = 0
                /\ fled' = 0
                /\ igniteEvt' =
                      [a \in Actors |->
                          IF a = "p1"
                          THEN DuelBursts(Started(player1Ref, start), p1Hands, t)
                          ELSE IF a = "p2"
                          THEN DuelBursts(Started(player2Ref, start), p2Hands, t)
                          ELSE 0]
                /\ dissolve' = [dissolve EXCEPT
                                   !["p1"] = DissolveCount(@, player1Ref.swordState,
                                                           q1.swordState, q1.swordProgress),
                                   !["p2"] = DissolveCount(@, player2Ref.swordState,
                                                           q2.swordState, q2.swordProgress)]
                /\ UNCHANGED <<gameMode, soloVars>>

DuelFrameIn(Dts, maxT, H1, H2) ==
    DuelFrameCore(Dts, maxT, H1, H2) /\ UNCHANGED <<geoIn, geoOut>>

----------------------------------------------------------------------------
(* The hand assignment of the duel branch.  Here a hand also carries        *)
(* center, the value of getHandCenter, and a face is the point of its       *)
(* landmark 1; both in tenths of the frame, so that the 0.5 of the screen   *)
(* split is SPLIT_X.                                                        *)

SPLIT_X == 5

\* faces.sort((a, b) => b[1].x - a[1].x): the place of face i after the sort
FaceRank(faces, i) ==
    Cardinality({j \in 1..Len(faces) :
                    \/ faces[j][1] > faces[i][1]
                    \/ faces[j][1] = faces[i][1] /\ j < i})

\* p1Face and p2Face, << >> for null
FaceAt(faces, r) ==
    IF \E i \in 1..Len(faces) : FaceRank(faces, i) = r
    THEN <<faces[CHOOSE i \in 1..Len(faces) : FaceRank(faces, i) = r]>>
    ELSE << >>

\* mutant of ToP1: one tracked face is enough to leave the screen split
ToP1OneFace(hand, p1Face, p2Face) ==
    IF p1Face # << >>
    THEN getDistanceSq(hand.center, p1Face[1])
            < (IF p2Face # << >> THEN getDistanceSq(hand.center, p2Face[1]) ELSE 100)
    ELSE hand.center[1] > SPLIT_X

\* the hand is pushed to p1Hands
ToP1(hand, p1Face, p2Face) ==
    IF p1Face # << >> /\ p2Face # << >>
    THEN getDistanceSq(hand.center, p1Face[1]) < getDistanceSq(hand.center, p2Face[1])
    ELSE hand.center[1] > SPLIT_X

\* p1Hands and p2Hands of the frame
AssignHands(hands, faces) ==
    LET p1Face == FaceAt(faces, 0)
        p2Face == FaceAt(faces, 1)
    IN  [p1 |-> SelectSeq(hands, LAMBDA h : ToP1(h, p1Face, p2Face)),
         p2 |-> SelectSeq(hands, LAMBDA h : ~ToP1(h, p1Face, p2Face))]

\* duel branch of drawLoop, from the hands and faces the detectors gave
DuelFrameFaces(Dts, maxT, Hands, Faces) ==
    \E hands \in Hands, faces \in Faces :
        \E asg \in {AssignHands(hands, faces)} :
            /\ DuelFrameCore(Dts, maxT, {asg.p1}, {asg.p2})
            /\ geoIn' = [kind |-> "assign", hands |-> hands, faces |-> faces]
            /\ geoOut' = pending

----------------------------------------------------------------------------
(* Inputs of the frames.  A specification draws every frame's period, hand  *)
(* lists and geometry from the sets given to its frame actions, and stops   *)
(* the clock at Epoch + its horizon.                                        *)

FistL == [handedness |-> Left, fist |-> TRUE]
FistR == [handedness |-> Right, fist |-> TRUE]
OpenL == [handedness |-> Left, fist |-> FALSE]
OpenR == [handedness |-> Right, fist |-> FALSE]

\* enemy speeds, 0.003 .. 0.007 per frame
SpeedSet == {3, 6}

(* Spec: the whole component, both modes, over a short run. *)
Horizon == 1250
SoloFrame ==
    SoloFrameIn({250}, Epoch + Horizon,
                {<< >>, <<FistR>>, <<OpenR>>, <<FistL>>, <<FistR, OpenL>>, <<OpenL, FistR>>},
                {10, 35, 55}, BOOLEAN, SpeedSet)
DuelFrame ==
    DuelFrameIn({250}, Epoch + Horizon,
                {<< >>, <<FistR>>, <<OpenR>>}, {<< >>, <<FistL>>})
Next == toggleMode \/ SoloFrame \/ DuelFrame
Spec == Init /\ [][Next]_vars

(* SpecDuel: duels in which either player may lose and regain the grip;    *)
(* frames half a second apart, or after a stall of three seconds.           *)
HorizonDuel == 4000
DuelFrameGrip ==
    DuelFrameIn({500, 3000}, Epoch + HorizonDuel,
                {<< >>, <<FistR>>}, {<< >>, <<FistR>>})
NextDuel == toggleMode \/ DuelFrameGrip
SpecDuel == Init /\ [][NextDuel]_vars

(* SpecMatch: whole matches, both players holding their fist throughout.    *)
HorizonMatch == 8000
DuelFrameMatch ==
    DuelFrameIn({500}, Epoch + HorizonMatch, {<<FistR>>}, {<<FistL>>})
NextMatch == toggleMode \/ DuelFrameMatch
SpecMatch == Init /\ [][NextMatch]_vars

(* SpecRematch: quick frames, so that a match can be reset and started      *)
(* again within the invulnerability window of the last hit.                 *)
HorizonRematch == 1100
DuelFrameQuick ==
    DuelFrameIn({40, 410}, Epoch + HorizonRematch, {<<FistR>>}, {<<FistL>>})
NextRematch == toggleMode \/ DuelFrameQuick
SpecRematch == Init /\ [][NextRematch]_vars

(* SpecDissolve: swords that are drawn, dropped and dissolve, in both modes. *)
HorizonDissolve == 7500
SoloFrameDrop ==
    SoloFrameIn({500, 3000}, Epoch + HorizonDissolve,
                {<< >>, <<FistR>>, <<FistR, OpenL>>}, {10, 16, 55}, {FALSE}, SpeedSet)
DuelFrameDrop ==
    DuelFrameIn({500, 3000}, Epoch + HorizonDissolve, {<< >>, <<FistR>>}, {<< >>})
NextDissolve == toggleMode \/ SoloFrameDrop \/ DuelFrameDrop
SpecDissolve == Init /\ [][NextDissolve]_vars

(* SpecFade: swords drawn to full length and dropped for good, long enough  *)
(* for each to dissolve away; a frame every 600 ms, and the fist may come   *)
(* back while the blade dissolves.                                          *)
HorizonFade == 15000
SoloFrameFade ==
    SoloFrameIn({600}, Epoch + HorizonFade,
                {<< >>, <<FistR, OpenL>>}, {10, 55}, {FALSE}, SpeedSet)
DuelFrameFade ==
    DuelFrameIn({600}, Epoch + HorizonFade, {<< >>, <<FistR>>}, {<< >>})
NextFade == toggleMode \/ SoloFrameFade \/ DuelFrameFade
SpecFade == Init /\ [][NextFade]_vars

(* SpecGrip: the run of one duel from its reset up to the start of the     *)
(* match, with frames that keep coming (requestAnimationFrame re-arms       *)
(* drawLoop in every frame) 300 ms apart.  Player 1 shows a Right fist in   *)
(* every frame, alone or after another hand, and player 2 a Left fist.      *)
(* Date.now() has no upper bound, and the code reads a timestamp only in a  *)
(* difference with the frame's Date.now(): ClockRebase takes three frame    *)
(* intervals off the clock and off every stored timestamp, which leaves     *)
(* those differences as they are (a timestamp that would fall below 0 is    *)
(* more than Epoch old, before and after, which is beyond every period the  *)
(* code compares with).                                                     *)
HorizonGrip == 1300
EnterDuel == gameMode = SOLO /\ toggleMode
DuelFrameOpening ==
    /\ duelStateRef = DUEL_WAITING
    /\ DuelFrameIn({300}, Epoch + HorizonGrip,
                   {<<FistR>>, <<OpenL, FistR>>, <<FistL, FistR>>, <<OpenR, FistR>>},
                   {<<FistL>>})
ClockRebase ==
    LET ClockShift == 3 * 300
        Rebased(stamp) == Max(0, stamp - ClockShift) IN
    /\ now >= Epoch + ClockShift
    /\ now' = now - ClockShift
    /\ lastFistTimeRef' = Rebased(lastFistTimeRef)
    /\ lastEnemySpawnTime' = Rebased(lastEnemySpawnTime)
    /\ lastNodTriggerTime' = Rebased(lastNodTriggerTime)
    /\ player1Ref' = [player1Ref EXCEPT !.lastFistTime = Rebased(@),
                                        !.lastHitTime = Rebased(@)]
    /\ player2Ref' = [player2Ref EXCEPT !.lastFistTime = Rebased(@),
                                        !.lastHitTime = Rebased(@)]
    /\ gripTime' = [a \in Actors |-> Rebased(gripTime[a])]
    /\ dropTime' = [a \in {"p1", "p2"} |-> Rebased(dropTime[a])]
    /\ UNCHANGED <<gameMode, gameStateRef, swordProgressRef, swordHandRef,
                   trailHistoryRef, isGameActiveRef, enemiesRef, score,
                   duelStateRef, duelWinner, p1Hp, p2Hp, lastOp, startEvt,
                   clashEvt, hitEvt, grip, resetSince, seen, segEvt, distEvt,
                   killed, fled, igniteEvt, dissolve, geoIn, geoOut>>
NextGrip == EnterDuel \/ DuelFrameOpening \/ ClockRebase
SpecGrip ==
    Init /\ [][NextGrip]_vars /\ WF_vars(DuelFrameOpening) /\ WF_vars(ClockRebase)

(* SpecEnemies: a solo game on a fast display (a frame every 5 ms) with a   *)
(* player who keeps nodding, long enough for an enemy to fall through the   *)
(* frame and for the second nod to stop the game.                           *)
HorizonEnemies == 1600
SoloFrameFall ==
    SoloFrameIn({5}, Epoch + HorizonEnemies, {<<FistR, OpenL>>}, {10, 55},
                {TRUE}, {6})
NextEnemies == toggleMode \/ SoloFrameFall
SpecEnemies == Init /\ [][NextEnemies]_vars

(* SpecAssign: duel frames whose hands are assigned by the tracked faces or *)
(* by the screen split.  A hand sits left, in the middle or right; the      *)
(* middle is as far from one face of FacePair as from the other.            *)
HorizonAssign == 1500
HandAt(hd, fist, x) == [handedness |-> hd, fist |-> fist, center |-> <<x, 5>>]
HandsSeen ==
    {<< >>} \cup
    {<<HandAt(Right, TRUE, x)>> : x \in {2, 5, 8}} \cup
    {<<HandAt(Right, TRUE, x), HandAt(Left, f, y)>> :
        x \in {2, 8}, y \in {2, 5, 8}, f \in BOOLEAN}
FacesSeen ==
    {<< >>, << <<3, 3>> >>, << <<3, 3>>, <<7, 3>> >>, << <<7, 3>>, <<3, 3>> >>,
     << <<1, 3>>, <<4, 3>> >>}
DuelFrameTracked ==
    DuelFrameFaces({500}, Epoch + HorizonAssign, HandsSeen, FacesSeen)
NextAssign == toggleMode \/ DuelFrameTracked
SpecAssign == Init /\ [][NextAssign]_vars

----------------------------------------------------------------------------
(* The geometry helpers, called on their own with arguments from a grid.   *)

frameVars == <<gameMode, now, soloVars, duelVars, lastOp, startEvt, clashEvt,
               hitEvt, grip, gripTime, dropTime, resetSince, seen, segEvt,
               distEvt, killed, fled, igniteEvt, dissolve>>

\* SpecClash: the clash test on two blades with ends on a grid of 9 points;
\* (0,0) and (3,4) are exactly THRESHOLD apart
ClashPoints == {0, 3, 13} \X {0, 4, 14}
Blades == {sg \in [p1 : ClashPoints, p2 : ClashPoints] : sg.p1 # sg.p2}
InitClash ==
    /\ InitState
    /\ geoIn \in [kind : {"clash"}, s1 : Blades, s2 : Blades]
    /\ geoOut = pending
ClashCall ==
    /\ geoIn.kind = "clash"
    /\ geoOut = pending
    /\ geoOut' = <<collisionPt(geoIn.s1, geoIn.s2)>>
    /\ UNCHANGED <<frameVars, geoIn>>
SpecClash == InitClash /\ [][ClashCall]_vars

\* SpecRect: lineRectCollide on segments with ends in 0..GridMax squared and
\* rectangles of positive size inside that square
GridMax == 4
RectMax == 2
GridPoints == (0..GridMax) \X (0..GridMax)
InitRect ==
    /\ InitState
    /\ geoIn \in [kind : {"rect"}, a : GridPoints, b : GridPoints,
                  rx : 1..RectMax, ry : 1..RectMax, rw : 1..RectMax, rh : 1..RectMax]
    /\ geoOut = pending
RectCall ==
    /\ geoIn.kind = "rect"
    /\ geoOut = pending
    /\ geoOut' = <<lineRectCollide(geoIn.a[1], geoIn.a[2], geoIn.b[1], geoIn.b[2],
                                   geoIn.rx, geoIn.ry, geoIn.rw, geoIn.rh)>>
    /\ UNCHANGED <<frameVars, geoIn>>
SpecRect == InitRect /\ [][RectCall]_vars

\* SpecLines: getLineIntersection on two segments with ends in 0..LineMax
\* squared, called in both orders
LineMax == 3
LinePoints == (0..LineMax) \X (0..LineMax)
InitLines ==
    /\ InitState
    /\ geoIn \in [kind : {"lines"}, p0 : LinePoints, p1 : LinePoints,
                  p2 : LinePoints, p3 : LinePoints]
    /\ geoOut = pending
LinesCall ==
    /\ geoIn.kind = "lines"
    /\ geoOut = pending
    /\ geoOut' = <<getLineIntersection(geoIn.p0, geoIn.p1, geoIn.p2, geoIn.p3),
                   getLineIntersection(geoIn.p2, geoIn.p3, geoIn.p0, geoIn.p1)>>
    /\ UNCHANGED <<frameVars, geoIn>>
SpecLines == InitLines /\ [][LinesCall]_vars

\* SpecFist: isFist on a hand, on the same hand moved by an offset, on the
\* same hand scaled, and on the same hand with another thumb.  A finger is
\* <<mcp, pip, tip>>; the four fingers are drawn from FingerPoses.
FingerPoses ==
    { << <<0, 3>>, <<0, 5>>, <<0, 8>> >>,      \* stretched
      << <<0, 3>>, <<1, 5>>, <<1, 2>> >>,      \* tip behind the knuckle
      << <<0, 5>>, <<0, 4>>, <<0, 6>> >>,      \* tip at 1.2 times the mcp distance
      << <<3, 4>>, <<4, 1>>, <<4, 4>> >> }     \* tip near the palm
Wrists == {<<0, 0>>, <<1, 0>>}
Thumbs == {<<2, 1>>, <<7, 7>>}
Offsets == {<<3, 0>>, <<-2, 5>>}
Scales == {2, 3}

\* the 21 landmarks of a hand with the given wrist, thumb tip and fingers
HandOf(wrist, thumb, fs) ==
    [i \in 0..20 |->
        IF i = 0 THEN wrist
        ELSE IF i <= 4 THEN thumb
        ELSE LET f == fs[(i - 1) \div 4]
                 j == (i - 1) % 4
             IN  IF j = 0 THEN f[1] ELSE IF j = 3 THEN f[3] ELSE f[2]]

translate(landmarks, d) ==
    [i \in 0..20 |-> <<landmarks[i][1] + d[1], landmarks[i][2] + d[2]>>]
scale(landmarks, k) ==
    [i \in 0..20 |-> <<landmarks[i][1] * k, landmarks[i][2] * k>>]
withThumb(landmarks, thumb) ==
    [i \in 0..20 |-> IF i \in 1..4 THEN thumb ELSE landmarks[i]]

InitFist ==
    /\ InitState
    /\ geoIn \in [kind : {"fist"}, wrist : Wrists, thumb : Thumbs,
                  fs : [1..4 -> FingerPoses], d : Offsets, k : Scales,
                  thumb2 : Thumbs]
    /\ geoOut = pending
FistCall ==
    /\ geoIn.kind = "fist"
    /\ geoOut = pending
    /\ \E h \in {HandOf(geoIn.wrist, geoIn.thumb, geoIn.fs)} :
          geoOut' = <<isFist(h), isFist(translate(h, geoIn.d)),
                      isFist(scale(h, geoIn.k)), isFist(withThumb(h, geoIn.thumb2))>>
    /\ UNCHANGED <<frameVars, geoIn>>
SpecFist == InitFist /\ [][FistCall]_vars

\* SpecDegenerate: the three helpers on a segment of length zero, the point
\* v: the distance of a from it, its intersection with the segment [a, b]
\* in both orders, and its collision with a rectangle
InitDegenerate ==
    /\ InitState
    /\ geoIn \in [kind : {"degenerate"}, v : LinePoints, a : LinePoints,
                  b : LinePoints, rx : 1..RectMax, ry : 1..RectMax,
                  rw : 1..RectMax, rh : 1..RectMax]
    /\ geoOut = pending
DegenerateCall ==
    /\ geoIn.kind = "degenerate"
    /\ geoOut = pending
    /\ geoOut' = <<distToSegment(geoIn.a, geoIn.v, geoIn.v),
                   getLineIntersection(geoIn.v, geoIn.v, geoIn.a, geoIn.b),
                   getLineIntersection(geoIn.a, geoIn.b, geoIn.v, geoIn.v),
                   lineRectCollide(geoIn.v[1], geoIn.v[2], geoIn.v[1], geoIn.v[2],
                                   geoIn.rx, geoIn.ry, geoIn.rw, geoIn.rh)>>
    /\ UNCHANGED <<frameVars, geoIn>>
SpecDegenerate == InitDegenerate /\ [][DegenerateCall]_vars

----------------------------------------------------------------------------
(* The hit boxes of a duel frame.  A face is its nose landmark in tenths of *)
(* the frame, w and h are the canvas size in render units; the canvas is    *)
(* mirrored, so a nose at x is drawn at (1 - x) * w.                        *)

\* boxX, boxY, boxW, boxH of checkHit
hitBox(targetFace, isRightSidePlayer, w, h) ==
    IF targetFace # << >>
    THEN LET nose == targetFace[1]
             nx == ((10 - nose[1]) * w) \div 10
             ny == (nose[2] * h) \div 10
         IN  [x |-> nx - 300 \div 2, y |-> ny - 150, w |-> 300, h |-> 700]
    ELSE LET centerX == IF isRightSidePlayer THEN (3 * w) \div 4 ELSE w \div 4
         IN  [x |-> centerX - 350 \div 2, y |-> h \div 5, w |-> 350, h |-> 800]

\* lineRectCollide of a blade and a hit box
hitsBox(seg, box) ==
    lineRectCollide(seg[1][1], seg[1][2], seg[2][1], seg[2][2],
                    box.x, box.y, box.w, box.h)

(* SpecBox: one duel frame's faces, canvas and blades; the two checkHit     *)
(* calls give the box of player 2 with the blade of player 1 on it, then    *)
(* the box of player 1 with the blade of player 2 on it.                    *)
NosePoints == {2, 4, 6, 8} \X {3, 5}
FaceLists ==
    {<< >>} \cup {<<f>> : f \in NosePoints}
            \cup {<<f, g>> : f \in NosePoints, g \in NosePoints}
BladeSegs ==
    {<< <<200, 300>>, <<260, 340>> >>, << <<1000, 300>>, <<1060, 340>> >>,
     << <<600, 20>>, <<640, 60>> >>}
InitBox ==
    /\ InitState
    /\ geoIn \in [kind : {"box"}, faces : FaceLists, w : {1280}, h : {720, 960},
                  s1 : BladeSegs, s2 : BladeSegs]
    /\ geoOut = pending
BoxCall ==
    /\ geoIn.kind = "box"
    /\ geoOut = pending
    /\ \E p1Face \in {FaceAt(geoIn.faces, 0)}, p2Face \in {FaceAt(geoIn.faces, 1)} :
        \E box2 \in {hitBox(p2Face, TRUE, geoIn.w, geoIn.h)},
           box1 \in {hitBox(p1Face, FALSE, geoIn.w, geoIn.h)} :
            geoOut' = <<box2, hitsBox(geoIn.s1, box2), box1, hitsBox(geoIn.s2, box1)>>
    /\ UNCHANGED <<frameVars, geoIn>>
SpecBox == InitBox /\ [][BoxCall]_vars

----------------------------------------------------------------------------
(* The three actors, read from the state *)

ActorState(a) ==
    IF a = "solo" THEN gameStateRef
    ELSE IF a = "p1" THEN player1Ref.swordState ELSE player2Ref.swordState

ActorProgress(a) ==
    IF a = "solo" THEN swordProgressRef
    ELSE IF a = "p1" THEN player1Ref.swordProgress ELSE player2Ref.swordProgress

ActorHand(a) ==
    IF a = "solo" THEN swordHandRef
    ELSE IF a = "p1" THEN player1Ref.swordHand ELSE player2Ref.swordHand

ActorTrail(a) ==
    IF a = "solo" THEN trailHistoryRef
    ELSE IF a = "p1" THEN player1Ref.trail ELSE player2Ref.trail

PlayerHp(a) == IF a = "p1" THEN player1Ref.hp ELSE player2Ref.hp

Players == {"p1", "p2"}

BothActive == player1Ref.swordState = ACTIVE /\ player2Ref.swordState = ACTIVE

----------------------------------------------------------------------------
(* C1: after any sequence of frames, mode switches and resets every actor's *)
(* sword progress is within [0,1], and it is 0 whenever the actor is Idle.  *)
C1_ProgressInRange ==
    \A a \in Actors :
        /\ ActorProgress(a) \in 0..FULL_PROGRESS
        /\ (ActorState(a) = IDLE => ActorProgress(a) = 0)

(* C2: for every actor the bound hand is non-null if and only if the sword  *)
(* state is not Idle, also after a reset.                                   *)
C2_BoundIffNotIdle ==
    \A a \in Actors : (ActorHand(a) # null) <=> (ActorState(a) # IDLE)

(* C3: each player's hp is an integer in [0,100] in every reachable state,  *)
(* namely 100 lowered by 8 a number of times and clamped at 0.              *)
C3_HpInRange ==
    \A a \in Players :
        /\ PlayerHp(a) \in 0..MAX_HP
        /\ \E k \in 0..13 : PlayerHp(a) = Max(0, MAX_HP - k * HIT_DAMAGE)

\* a hit that was clamped: the thirteenth hit takes 4 to 0
C3_Witness == "p2" \in hitEvt /\ player2Ref.hp = 0

(* C4, as claimed: any two frames that lower the same player's hp are at    *)
(* least 500 ms apart.                                                      *)
C4_Original ==
    [][\A a \in Players :
          (IF a = "p1" THEN player1Ref'.hp < player1Ref.hp
                       ELSE player2Ref'.hp < player2Ref.hp)
          => now' - dropTime[a] >= HIT_COOLDOWN]_vars

(* C4, amended: any two frames that lower the same player's hp with no      *)
(* reset between them are at least 500 ms apart.                            *)
C4_WindowWithinMatch ==
    [][\A a \in Players :
          (IF a = "p1" THEN player1Ref'.hp < player1Ref.hp
                       ELSE player2Ref'.hp < player2Ref.hp)
          => (now' - dropTime[a] >= HIT_COOLDOWN \/ resetSince[a])]_vars

\* a second hit on the same player in one match
C4_Witness ==
    "p2" \in hitEvt /\ player2Ref.hp = MAX_HP - 2 * HIT_DAMAGE /\ ~resetSince["p2"]

(* C5: once the match state is DuelEnded no frame changes the match state,  *)
(* either hp or the winner, or registers a hit or a clash; it leaves        *)
(* DuelEnded only by a reset, to DuelWaiting.                               *)
C5_EndedIsTerminal ==
    [][duelStateRef = DUEL_ENDED =>
          IF lastOp' = "toggle"
          THEN duelStateRef' = DUEL_WAITING
          ELSE /\ duelStateRef' = DUEL_ENDED
               /\ player1Ref'.hp = player1Ref.hp
               /\ player2Ref'.hp = player2Ref.hp
               /\ duelWinner' = duelWinner
               /\ ~clashEvt'
               /\ hitEvt' = {}]_vars

\* a frame has run on an ended match
C5_Witness == duelStateRef = DUEL_ENDED /\ lastOp = "duel" /\ hitEvt = {}

(* C6, as claimed: a frame that begins in DuelWaiting with both actors      *)
(* Active ends in DuelFighting with both hp 100, and the match becomes      *)
(* DuelFighting in no other way.                                            *)
C6_Original ==
    [][/\ (lastOp' = "duel" /\ duelStateRef = DUEL_WAITING /\ BothActive)
            => /\ duelStateRef' = DUEL_FIGHTING
               /\ player1Ref'.hp = MAX_HP
               /\ player2Ref'.hp = MAX_HP
       /\ (duelStateRef' = DUEL_FIGHTING /\ duelStateRef # DUEL_FIGHTING)
            => (duelStateRef = DUEL_WAITING /\ BothActive)]_vars

(* C6, amended: such a frame ends in DuelFighting with each hp 100, or 92   *)
(* for a player hit in that same frame (hp is set to 100 before the frame's *)
(* hit checks); the match becomes DuelFighting in no other way.             *)
C6_MatchStart ==
    [][/\ (lastOp' = "duel" /\ duelStateRef = DUEL_WAITING /\ BothActive)
            => /\ duelStateRef' = DUEL_FIGHTING
               /\ startEvt'
               /\ player1Ref'.hp =
                    IF "p1" \in hitEvt' THEN MAX_HP - HIT_DAMAGE ELSE MAX_HP
               /\ player2Ref'.hp =
                    IF "p2" \in hitEvt' THEN MAX_HP - HIT_DAMAGE ELSE MAX_HP
       /\ (duelStateRef' = DUEL_FIGHTING /\ duelStateRef # DUEL_FIGHTING)
            => (duelStateRef = DUEL_WAITING /\ BothActive /\ lastOp' = "duel")]_vars

\* the frame that started the match also landed a hit
C6_Witness == startEvt /\ duelStateRef = DUEL_FIGHTING /\ "p2" \in hitEvt

(* C7, as claimed: a clash or a hit is raised only in frames where the      *)
(* match is being fought and both actors are Active.                        *)
C7_Original ==
    (clashEvt \/ hitEvt # {}) =>
        /\ duelStateRef \in {DUEL_FIGHTING, DUEL_ENDED}
        /\ BothActive

(* C7, amended: a clash or a hit is raised only in frames where the match   *)
(* is being fought; a clash needs both blades, and a hit the attacker's     *)
(* blade, to be Active or Dissolving (an Idle or HiltForming blade never    *)
(* clashes and never damages); the defender's sword may be in any state.    *)
C7_OnlyWhileFighting ==
    /\ (clashEvt \/ hitEvt # {}) => duelStateRef \in {DUEL_FIGHTING, DUEL_ENDED}
    /\ clashEvt => /\ player1Ref.swordState \in {ACTIVE, DISSOLVING}
                   /\ player2Ref.swordState \in {ACTIVE, DISSOLVING}
    /\ "p2" \in hitEvt => player1Ref.swordState \in {ACTIVE, DISSOLVING}
    /\ "p1" \in hitEvt => player2Ref.swordState \in {ACTIVE, DISSOLVING}

\* a Dissolving blade damages the opponent
C7_Witness == "p2" \in hitEvt /\ player1Ref.swordState = DISSOLVING

(* C8: immediately after resetGame every actor is Idle with progress 0, no  *)
(* bound hand and an empty trail, both players have hp 100, there are no    *)
(* enemies and the match state is DuelWaiting.                              *)
C8_ResetIsComplete ==
    lastOp = "toggle" =>
        /\ \A a \in Actors :
              /\ ActorState(a) = IDLE
              /\ ActorProgress(a) = 0
              /\ ActorHand(a) = null
              /\ ActorTrail(a) = 0
        /\ \A a \in Players : PlayerHp(a) = MAX_HP
        /\ enemiesRef = << >>
        /\ duelStateRef = DUEL_WAITING

DissolveStep(a) == IF a = "solo" THEN DissolveStepSolo ELSE DissolveStepDuel
Grace(a) == IF a = "solo" THEN SOLO_GRACE_PERIOD ELSE FIST_LOSS_GRACE_PERIOD
FrameOf(a) == IF a = "solo" THEN "solo" ELSE "duel"

\* a frame of the actor's mode takes one dissolve step, clamped at 0
DissolveStepTaken(a) ==
    IF ActorProgress(a) - DissolveStep(a) > 0
    THEN /\ ActorProgress(a)' = ActorProgress(a) - DissolveStep(a)
         /\ ActorState(a)' = DISSOLVING
    ELSE /\ ActorProgress(a)' = 0
         /\ ActorState(a)' = IDLE
         /\ ActorHand(a)' = null

(* C9, as claimed: while an actor is Dissolving every frame strictly lowers *)
(* its progress by the mode's step; it leaves Dissolving only to Idle, in   *)
(* the first frame where the lowered progress is <= 0, with progress 0.     *)
C9_Original ==
    [][\A a \in Actors :
          (ActorState(a) = DISSOLVING /\ lastOp' = FrameOf(a))
          => /\ DissolveStepTaken(a)
             /\ ActorProgress(a)' < ActorProgress(a)]_vars

(* C9, amended: a frame of the actor's mode that finds it Dissolving lowers *)
(* its progress by the mode's step, clamped at 0, whatever the hands do:    *)
(* strictly when the progress was above 0, while a solo actor that began to *)
(* dissolve at progress 0 keeps 0.  The frame leaves the actor Dissolving,  *)
(* or takes it to Idle when the lowered progress is <= 0, then with         *)
(* progress 0 and no bound hand.  No step takes a Dissolving actor to any   *)
(* state but Idle (resetGame does so without the dissolve step).            *)
C9_DissolveStep ==
    [][\A a \in Actors :
          ActorState(a) = DISSOLVING
          => /\ ActorState(a)' \in {DISSOLVING, IDLE}
             /\ lastOp' = FrameOf(a)
                => /\ DissolveStepTaken(a)
                   /\ (ActorProgress(a) > 0 => ActorProgress(a)' < ActorProgress(a))
                   /\ ActorProgress(a)' >= 0]_vars

\* a duel blade one step into dissolving, after a solo blade dissolved one
\* step (its progress stays where the mode switch found it)
C9_Witness ==
    /\ player1Ref.swordState = DISSOLVING
    /\ player1Ref.swordProgress = FULL_PROGRESS - DissolveStepDuel
    /\ swordProgressRef = FULL_PROGRESS - DissolveStepSolo

(* C10: an actor enters Dissolving only in a frame whose timestamp exceeds  *)
(* its last confirmed grip (the last frame that showed the bound hand as a  *)
(* fist) by more than the grace period of its mode.                         *)
C10_OnlyAfterGrace ==
    [][\A a \in Actors :
          (ActorState(a)' = DISSOLVING /\ ActorState(a) # DISSOLVING)
          => now' - gripTime'[a] > Grace(a)]_vars

----------------------------------------------------------------------------
\* the frame's hands of an actor hold a hand labelled other than hd
OtherHandSeen(hands, hd) == \E i \in 1..Len(hands) : hands[i].handedness # hd

\* the frame's hands of an actor hold a hand labelled hd that is a fist
FistSeen(hands, hd) ==
    \E i \in 1..Len(hands) : hands[i].handedness = hd /\ hands[i].fist

\* the frame's hands of an actor hold a hand labelled hd
HandSeen(hands, hd) == \E i \in 1..Len(hands) : hands[i].handedness = hd

(* C11: a solo frame that shows exactly one hand, a fist, takes an Idle     *)
(* actor to HiltForming bound to that hand and leaves an actor that is      *)
(* HiltForming on that hand HiltForming; and no solo frame enters Casting   *)
(* or Active unless it shows a hand labelled other than the bound hand.     *)
C11_FistAloneStaysHilt ==
    [][lastOp' = "solo" =>
          /\ (Len(seen'["solo"]) = 1 /\ seen'["solo"][1].fist)
                => /\ gameStateRef = IDLE
                        => /\ gameStateRef' = HILT_FORMING
                           /\ swordHandRef' = seen'["solo"][1].handedness
                   /\ (/\ gameStateRef = HILT_FORMING
                       /\ swordHandRef = seen'["solo"][1].handedness)
                        => gameStateRef' = HILT_FORMING
          /\ (gameStateRef' \in {CASTING, ACTIVE} /\ gameStateRef' # gameStateRef)
                => OtherHandSeen(seen'["solo"], swordHandRef')]_vars

\* the lone fist is still HiltForming a second after the run began
C11_Witness ==
    /\ gameStateRef = HILT_FORMING
    /\ seen["solo"] = <<FistR>>
    /\ swordHandRef = Right
    /\ now >= Epoch + 1000

ActorLastFist(a) ==
    IF a = "solo" THEN lastFistTimeRef
    ELSE IF a = "p1" THEN player1Ref.lastFistTime ELSE player2Ref.lastFistTime

\* the label of the first fist among the frame's hands
FirstFistLabel(hands) ==
    hands[CHOOSE i \in 1..Len(hands) :
             hands[i].fist /\ \A j \in 1..(i - 1) : ~hands[j].fist].handedness

(* C12: an actor leaves Idle only to HiltForming and only in a frame that   *)
(* shows it a fist; the transition binds the hand that triggered it (the    *)
(* first fist of the frame), sets the grip time to the frame's timestamp    *)
(* and leaves sword progress 0, in both modes.                              *)
C12_LeavesIdle ==
    [][\A a \in Actors :
          (ActorState(a) = IDLE /\ ActorState(a)' # IDLE)
          => /\ ActorState(a)' = HILT_FORMING
             /\ \E i \in 1..Len(seen'[a]) : seen'[a][i].fist
             /\ ActorHand(a)' = FirstFistLabel(seen'[a])
             /\ ActorLastFist(a)' = now'
             /\ ActorProgress(a)' = 0]_vars

(* C13: a frame that finds an actor HiltForming and does not show its      *)
(* bound hand as a fist takes it to Idle, with no bound hand and            *)
(* progress 0.                                                              *)
C13_Original ==
    [][\A a \in Actors :
          (/\ lastOp' = FrameOf(a)
           /\ ActorState(a) = HILT_FORMING
           /\ ~FistSeen(seen'[a], ActorHand(a)))
          => /\ ActorState(a)' = IDLE
             /\ ActorHand(a)' = null
             /\ ActorProgress(a)' = 0]_vars

(* C13, what the frames do instead: in duel mode such a frame takes the     *)
(* player to Idle, with no bound hand and progress 0.  In solo mode it      *)
(* keeps the bound hand and                                                 *)
(* goes to Dissolving when the frame is more than 500 ms after the last     *)
(* grip, else to Casting (progress 0) when it shows the open bound hand     *)
(* and another hand closer than CASTING_START_DIST, else stays HiltForming. *)
C13_HiltRelease ==
    [][/\ \A a \in Players :
            (/\ lastOp' = "duel"
             /\ ActorState(a) = HILT_FORMING
             /\ ~FistSeen(seen'[a], ActorHand(a)))
            => /\ ActorState(a)' = IDLE
               /\ ActorHand(a)' = null
               /\ ActorProgress(a)' = 0
       /\ (/\ lastOp' = "solo"
           /\ gameStateRef = HILT_FORMING
           /\ ~FistSeen(seen'["solo"], swordHandRef))
            => /\ swordHandRef' = swordHandRef
               /\ IF now' - lastFistTimeRef > SOLO_GRACE_PERIOD
                  THEN gameStateRef' = DISSOLVING /\ swordProgressRef' = swordProgressRef
                  ELSE IF /\ HandSeen(seen'["solo"], swordHandRef)
                          /\ OtherHandSeen(seen'["solo"], swordHandRef)
                          /\ distEvt' < CASTING_START_DIST
                  THEN gameStateRef' = CASTING /\ swordProgressRef' = 0
                  ELSE /\ gameStateRef' = HILT_FORMING
                       /\ swordProgressRef' = swordProgressRef]_vars

\* a solo frame without hands has left the actor HiltForming
C13_Witness ==
    /\ lastOp = "solo"
    /\ gameStateRef = HILT_FORMING
    /\ seen["solo"] = << >>
    /\ swordHandRef # null

(* C14: a solo frame takes the actor from HiltForming to Casting only when  *)
(* it shows the bound hand as a fist and measures a distance between the    *)
(* two hand centers below CASTING_START_DIST.                               *)
C14_CastingNeedsFist ==
    [][(/\ lastOp' = "solo"
        /\ gameStateRef = HILT_FORMING
        /\ gameStateRef' = CASTING)
       => /\ FistSeen(seen'["solo"], swordHandRef)
          /\ distEvt' < CASTING_START_DIST]_vars

\* the step spawned an enemy
SpawnSeen == IF lastEnemySpawnTime' # lastEnemySpawnTime THEN 1 ELSE 0

\* the step counts the enemies it removed by a hit, each once, and nothing else
ScoreCountsHits ==
    /\ killed' > 0 => (gameStateRef' = ACTIVE /\ "solo" \in segEvt')
    /\ score' = killed' + (IF lastOp' = "toggle" \/ (isGameActiveRef' /\ ~isGameActiveRef)
                           THEN 0 ELSE score)
    /\ score' <= score + killed'
    /\ \A i \in 1..Len(enemiesRef') : enemiesRef'[i].y <= ENEMY_EXIT_Y

C16_TrailOnlyWhileActive ==
    [][\A a \in Actors :
          /\ ActorTrail(a)' > ActorTrail(a) => ActorState(a)' = ACTIVE
          /\ (lastOp' = FrameOf(a) /\ ActorState(a)' # ACTIVE)
                => ActorTrail(a)' = 0]_vars

(* C17: a frame produces a sword segment for an actor only if the actor's   *)
(* sword progress is above 0 and the frame shows its bound hand.            *)
C17_SegmentNeedsProgress ==
    \A a \in segEvt :
        /\ ActorProgress(a) > 0
        /\ HandSeen(seen[a], ActorHand(a))

----------------------------------------------------------------------------
(* Plane geometry the helpers are measured against *)

Cross(a, b, c) == (b[1] - a[1]) * (c[2] - a[2]) - (b[2] - a[2]) * (c[1] - a[1])
Dot(a, b, c) == (b[1] - a[1]) * (c[1] - a[1]) + (b[2] - a[2]) * (c[2] - a[2])
DistSq(a, b) == Sq(b[1] - a[1]) + Sq(b[2] - a[2])

\* the segments [a0, a1] and [b0, b1] are not parallel and share a point:
\* each one's ends lie on both sides of, or on, the other's line
CrossingSegments(a0, a1, b0, b1) ==
    /\ (a1[1] - a0[1]) * (b1[2] - b0[2]) # (a1[2] - a0[2]) * (b1[1] - b0[1])
    /\ Cross(a0, a1, b0) * Cross(a0, a1, b1) <= 0
    /\ Cross(b0, b1, a0) * Cross(b0, b1, a1) <= 0

\* the point p is less than r away from the segment [v, w], v # w: from v
\* or w where its foot falls outside, from the line where it falls inside
NearSegment(p, v, w, r) ==
    IF Dot(v, w, p) <= 0 THEN DistSq(p, v) < Sq(r)
    ELSE IF Dot(v, w, p) >= DistSq(v, w) THEN DistSq(p, w) < Sq(r)
    ELSE Sq(Cross(v, w, p)) < Sq(r) * DistSq(v, w)

(* C18: the clash test on two blades yields a collision point if and only   *)
(* if the blades cross or the tip of either lies less than 50 render units  *)
(* from the other blade's segment.                                          *)
C18_ClashTwoTier ==
    (geoIn.kind = "clash" /\ geoOut # pending) =>
        (IsPoint(geoOut[1]) <=>
            \/ CrossingSegments(geoIn.s1.p1, geoIn.s1.p2, geoIn.s2.p1, geoIn.s2.p2)
            \/ NearSegment(geoIn.s1.p2, geoIn.s2.p1, geoIn.s2.p2, THRESHOLD)
            \/ NearSegment(geoIn.s2.p2, geoIn.s1.p1, geoIn.s1.p2, THRESHOLD))

\* two blades that do not cross clash because the second blade's tip, and
\* only that, is near the first blade
C18_Witness ==
    /\ geoIn.kind = "clash" /\ geoOut # pending
    /\ IsPoint(geoOut[1])
    /\ ~CrossingSegments(geoIn.s1.p1, geoIn.s1.p2, geoIn.s2.p1, geoIn.s2.p2)
    /\ ~NearSegment(geoIn.s1.p2, geoIn.s2.p1, geoIn.s2.p2, THRESHOLD)
    /\ NearSegment(geoIn.s2.p2, geoIn.s1.p1, geoIn.s1.p2, THRESHOLD)

\* the segment [a, b] holds a point of the closed rectangle: one of its
\* points at a parameter k / n, n the extent of the segment in x or in y
\* (where the segment enters the rectangle it crosses a grid line)
PointsAt(a, b, n, rx, ry, rw, rh) ==
    \E k \in 0..n :
        /\ n > 0
        /\ a[1] * n + k * (b[1] - a[1]) >= rx * n
        /\ a[1] * n + k * (b[1] - a[1]) <= (rx + rw) * n
        /\ a[2] * n + k * (b[2] - a[2]) >= ry * n
        /\ a[2] * n + k * (b[2] - a[2]) <= (ry + rh) * n

Abs(x) == IF x < 0 THEN 0 - x ELSE x

SharePoint(a, b, rx, ry, rw, rh) ==
    \/ PointsAt(a, b, 1, rx, ry, rw, rh)
    \/ PointsAt(a, b, Abs(b[1] - a[1]), rx, ry, rw, rh)
    \/ PointsAt(a, b, Abs(b[2] - a[2]), rx, ry, rw, rh)

(* C19: lineRectCollide returns true exactly when the segment and the       *)
(* closed rectangle share at least one point.                               *)
C19_RectCollide ==
    (geoIn.kind = "rect" /\ geoOut # pending) =>
        (geoOut[1] <=> SharePoint(geoIn.a, geoIn.b, geoIn.rx, geoIn.ry,
                                  geoIn.rw, geoIn.rh))

\* a segment crosses the rectangle with both ends outside it
C19_Witness ==
    /\ geoIn.kind = "rect" /\ geoOut # pending
    /\ geoOut[1]
    /\ ~inside(geoIn.a[1], geoIn.a[2], geoIn.rx, geoIn.ry, geoIn.rw, geoIn.rh)
    /\ ~inside(geoIn.b[1], geoIn.b[2], geoIn.rx, geoIn.ry, geoIn.rw, geoIn.rh)

\* the point (pt.xn / pt.d, pt.yn / pt.d) lies on the segment [a, b]
OnSegment(pt, a, b) ==
    LET px == pt.xn - a[1] * pt.d      \* (P - a) * d
        py == pt.yn - a[2] * pt.d
        dx == b[1] - a[1]
        dy == b[2] - a[2]
    IN  /\ dx * py - dy * px = 0
        /\ InUnit(dx * px + dy * py, pt.d * (dx * dx + dy * dy))

Parallel(p0, p1, p2, p3) ==
    (p1[1] - p0[1]) * (p3[2] - p2[2]) = (p1[2] - p0[2]) * (p3[1] - p2[1])

(* C20: getLineIntersection returns a point only if both parameters lie in  *)
(* [0,1], and the point then lies on both segments; it returns null for     *)
(* parallel and collinear segments, overlapping ones included; and whether  *)
(* it returns a point does not change when the two segments are swapped.    *)
C20_LineIntersection ==
    (geoIn.kind = "lines" /\ geoOut # pending) =>
        /\ IsPoint(geoOut[1]) =>
              /\ InUnit(geoOut[1][1].sn, geoOut[1][1].d)
              /\ InUnit(geoOut[1][1].tn, geoOut[1][1].d)
              /\ OnSegment(geoOut[1][1], geoIn.p0, geoIn.p1)
              /\ OnSegment(geoOut[1][1], geoIn.p2, geoIn.p3)
        /\ Parallel(geoIn.p0, geoIn.p1, geoIn.p2, geoIn.p3) => ~IsPoint(geoOut[1])
        /\ IsPoint(geoOut[1]) <=> IsPoint(geoOut[2])

\* two segments cross at a point that is no grid point
C20_Witness ==
    /\ geoIn.kind = "lines" /\ geoOut # pending
    /\ IsPoint(geoOut[1])
    /\ Abs(geoOut[1][1].xn) % Abs(geoOut[1][1].d) # 0

(* C21: isFist gives the same result for a hand, for that hand with every   *)
(* landmark moved by the same offset, for that hand with every landmark     *)
(* scaled by the same positive factor, and for that hand with other thumb   *)
(* landmarks.                                                               *)
C21_FistInvariant ==
    (geoIn.kind = "fist" /\ geoOut # pending) =>
        /\ geoOut[2] = geoOut[1]
        /\ geoOut[3] = geoOut[1]
        /\ geoOut[4] = geoOut[1]

\* a fist with one stretched finger, moved, scaled and given another thumb
C21_Witness ==
    /\ geoIn.kind = "fist" /\ geoOut # pending
    /\ geoOut[1]
    /\ geoIn.fs[1] = << <<0, 3>>, <<0, 5>>, <<0, 8>> >>
    /\ geoIn.thumb2 # geoIn.thumb

\* the tracked face with the larger x is player 1's, the other player 2's
FaceOf(a, faces) ==
    IF (faces[2][1] > faces[1][1]) <=> (a = "p1") THEN 2 ELSE 1

\* the actor a hand of the frame belongs to
OwnerOf(hand, faces) ==
    IF Len(faces) = 2
    THEN IF DistSq(hand.center, faces[FaceOf("p1", faces)])
               < DistSq(hand.center, faces[FaceOf("p2", faces)])
         THEN "p1" ELSE "p2"
    ELSE IF hand.center[1] > SPLIT_X THEN "p1" ELSE "p2"

(* C22: in a duel frame every detected hand goes to exactly one player:     *)
(* with two tracked faces to the player whose face point is closer to the   *)
(* hand center (to player 2 when both are equally far), with fewer than two *)
(* by the screen split, center x > 0.5 to player 1 and otherwise to player  *)
(* 2; each player's update sees exactly its hands, in the frame's order.    *)
C22_HandAssignment ==
    (lastOp = "duel" /\ geoIn.kind = "assign") =>
        \A a \in Players :
            seen[a] = SelectSeq(geoIn.hands, LAMBDA h : OwnerOf(h, geoIn.faces) = a)

\* two hands that the screen split would both give to player 2 are parted
\* by the two faces
C22_Witness ==
    /\ lastOp = "duel" /\ geoIn.kind = "assign"
    /\ Len(geoIn.faces) = 2
    /\ Len(seen["p1"]) = 1 /\ Len(seen["p2"]) = 1
    /\ seen["p1"][1].center[1] <= SPLIT_X
    /\ seen["p2"][1].center[1] <= SPLIT_X

\* the frame takes the actor to Active
Ignites(a) == ActorState(a)' = ACTIVE /\ ActorState(a) # ACTIVE

(* C23: an actor becomes Active only in a frame of its mode, solo from      *)
(* Casting and duel from HiltForming with the grip shown in that frame and  *)
(* more than 400 ms after the fist that bound the hand; its progress is     *)
(* then exactly 1 and the frame requests exactly one ignition burst; every  *)
(* other frame, and a reset, requests none.                                 *)
C23_IgnitionOnce ==
    [][\A a \in Actors :
          /\ igniteEvt'[a] = IF Ignites(a) THEN 1 ELSE 0
          /\ Ignites(a) =>
                /\ lastOp' = FrameOf(a)
                /\ ActorProgress(a)' = FULL_PROGRESS
                /\ IF a = "solo"
                   THEN ActorState(a) = CASTING
                   ELSE /\ ActorState(a) = HILT_FORMING
                        /\ grip'[a]
                        /\ now' - ActorLastFist(a) > DUEL_AUTO_IGNITE_TIME]_vars

\* a duel sword has just ignited, half a second after the fist that bound it
C23_Witness ==
    /\ lastOp = "duel"
    /\ igniteEvt["p1"] = 1
    /\ player1Ref.swordState = ACTIVE
    /\ now - player1Ref.lastFistTime = 500

\* the hand distance d, in hundredths, mapped linearly from
\* [CASTING_START_DIST, CASTING_COMPLETE_DIST] to [0, 1] and clamped
MappedProgress(d) ==
    IF d <= CASTING_START_DIST THEN 0
    ELSE IF d >= CASTING_COMPLETE_DIST THEN FULL_PROGRESS
    ELSE ((d - CASTING_START_DIST) * FULL_PROGRESS)
            \div (CASTING_COMPLETE_DIST - CASTING_START_DIST)

\* the frame shows the solo actor both its bound hand and another hand
BothSeen ==
    HandSeen(seen'["solo"], swordHandRef) /\ OtherHandSeen(seen'["solo"], swordHandRef)

\* after the frame the last confirmed grip is more than the grace period old
SoloGraceExpired == now' - lastFistTimeRef' > SOLO_GRACE_PERIOD

(* C24, as claimed: a solo frame that finds the actor Casting and shows     *)
(* both hands sets the progress to the mapped, clamped hand distance and    *)
(* makes the actor Active exactly when the distance is >= 0.55; a frame     *)
(* that misses a hand leaves progress and state unchanged unless the grace  *)
(* period expires.                                                          *)
C24_Original ==
    [][(lastOp' = "solo" /\ gameStateRef = CASTING) =>
          IF BothSeen
          THEN /\ swordProgressRef' = MappedProgress(distEvt')
               /\ (gameStateRef' = ACTIVE) <=> (distEvt' >= CASTING_COMPLETE_DIST)
          ELSE \/ SoloGraceExpired
               \/ swordProgressRef' = swordProgressRef /\ gameStateRef' = CASTING]_vars

(* C24, amended: a solo frame that finds the actor Casting first tests the  *)
(* grace period: when the last fist of the bound hand is more than 500 ms   *)
(* old the actor becomes Dissolving and keeps its progress, whether or not  *)
(* both hands are shown.  Otherwise a frame that shows both hands sets the  *)
(* progress to the mapped, clamped hand distance and makes the actor Active *)
(* exactly when the distance is >= 0.55, and a frame that misses a hand     *)
(* leaves progress and state unchanged.                                     *)
C24_CastingFrame ==
    [][(lastOp' = "solo" /\ gameStateRef = CASTING) =>
          IF SoloGraceExpired
          THEN gameStateRef' = DISSOLVING /\ swordProgressRef' = swordProgressRef
          ELSE IF BothSeen
          THEN /\ swordProgressRef' = MappedProgress(distEvt')
               /\ gameStateRef' = IF distEvt' >= CASTING_COMPLETE_DIST
                                  THEN ACTIVE ELSE CASTING
          ELSE swordProgressRef' = swordProgressRef /\ gameStateRef' = CASTING]_vars

\* a half-drawn blade starts to dissolve in a frame that shows both hands
C24_Witness ==
    /\ lastOp = "solo"
    /\ gameStateRef = DISSOLVING
    /\ swordProgressRef = MappedProgress(35)
    /\ HandSeen(seen["solo"], swordHandRef)
    /\ OtherHandSeen(seen["solo"], swordHandRef)

(* C25: dissolving ends.  A frame of the actor's mode that finds it         *)
(* Dissolving is counted, whatever hands it shows, and leaves it Dissolving *)
(* with less progress or Idle with progress 0 and no bound hand; at most    *)
(* progress / step counted frames leave it Dissolving, so that the next one *)
(* at the latest takes it to Idle (20 frames solo, 10 duel from full        *)
(* length); and no step takes a Dissolving actor anywhere but to Idle.      *)
C25_DissolvingEnds ==
    [][\A a \in Actors :
          /\ ActorState(a) = DISSOLVING =>
                /\ ActorState(a)' \in {DISSOLVING, IDLE}
                /\ lastOp' = FrameOf(a) =>
                      /\ dissolve'[a].n = dissolve[a].n + 1
                      /\ ActorState(a)' = DISSOLVING => ActorProgress(a)' < ActorProgress(a)
                      /\ ActorState(a)' = IDLE =>
                            ActorProgress(a)' = 0 /\ ActorHand(a)' = null
          /\ ActorState(a)' = DISSOLVING =>
                /\ dissolve'[a].from <= FULL_PROGRESS
                /\ dissolve'[a].n * (IF a = "solo" THEN 20 ELSE 40) <= dissolve'[a].from]_vars

\* a duel blade dropped at full length is Idle after 10 frames, in the last
\* of which the fist was back
C25_Witness ==
    /\ lastOp = "duel"
    /\ player1Ref.swordState = IDLE
    /\ dissolve["p1"] = [n |-> 10, from |-> FULL_PROGRESS]
    /\ seen["p1"] = <<FistR>>

(* C26: on a segment of length zero, the point v, the helpers give a        *)
(* defined result: distToSegment the distance from the point p to v,        *)
(* getLineIntersection null in either argument order, and lineRectCollide   *)
(* exactly whether v lies in the closed rectangle.                          *)
C26_Degenerate ==
    (geoIn.kind = "degenerate" /\ geoOut # pending) =>
        /\ geoOut[1].d > 0
        /\ geoOut[1].n = DistSq(geoIn.a, geoIn.v) * geoOut[1].d
        /\ geoOut[2] = noPoint
        /\ geoOut[3] = noPoint
        /\ geoOut[4] <=> /\ geoIn.rx <= geoIn.v[1] /\ geoIn.v[1] <= geoIn.rx + geoIn.rw
                         /\ geoIn.ry <= geoIn.v[2] /\ geoIn.v[2] <= geoIn.ry + geoIn.rh

\* the point lies in the rectangle and strictly inside the segment [a, b],
\* and still does not intersect it
C26_Witness ==
    /\ geoIn.kind = "degenerate" /\ geoOut # pending
    /\ geoOut[4]
    /\ geoOut[2] = noPoint
    /\ Cross(geoIn.a, geoIn.b, geoIn.v) = 0
    /\ Dot(geoIn.a, geoIn.b, geoIn.v) > 0
    /\ Dot(geoIn.a, geoIn.b, geoIn.v) < DistSq(geoIn.a, geoIn.b)

\* the id the code gives a player
PlayerId(a) == IF a = "p1" THEN 1 ELSE 2

(* C27: when the match state is DuelEnded exactly one player has hp 0 and   *)
(* the declared winner is the other player, whose hp is above 0, also when  *)
(* both blades land a hit in the same frame.                                *)
C27_OneLoser ==
    duelStateRef = DUEL_ENDED =>
        \E w \in Players, l \in Players :
            /\ w # l
            /\ PlayerHp(l) = 0
            /\ PlayerHp(w) > 0
            /\ duelWinner = PlayerId(w)

(* C28: after every duel frame the match state is DuelFighting only if both *)
(* players' hp are above 0, and it is DuelEnded if and only if some         *)
(* player's hp is 0.                                                        *)
C28_EndedIffNoHp ==
    lastOp = "duel" =>
        /\ duelStateRef = DUEL_FIGHTING => \A a \in Players : PlayerHp(a) > 0
        /\ duelStateRef = DUEL_ENDED <=> \E a \in Players : PlayerHp(a) = 0

\* the frame whose hit took player 2 from 4 to 0 and ended the match
C28_Witness ==
    /\ lastOp = "duel"
    /\ duelStateRef = DUEL_ENDED
    /\ hitEvt = {"p2"}
    /\ player2Ref.hp = 0
    /\ player1Ref.hp > 0

(* C29: after every frame, reset and match start the render-facing copies   *)
(* p1Hp and p2Hp equal the players' hp, also after the frame whose hit      *)
(* brings a player's hp to 0.                                               *)
C29_HpCopies ==
    /\ p1Hp = player1Ref.hp
    /\ p2Hp = player2Ref.hp

\* the handedness of the fist each player shows throughout SpecGrip
GripLabel(a) == IF a = "p1" THEN Right ELSE Left

\* the last frame showed the player a fist of its handedness
FistShown(a) ==
    \E i \in 1..Len(seen[a]) : seen[a][i].fist /\ seen[a][i].handedness = GripLabel(a)

\* the first fist the last frame showed the player is of its handedness and
\* is the first hand of that handedness
SteadyGrip(a) ==
    /\ FindFist(seen[a]) # 0
    /\ FindFist(seen[a]) = FindHand(seen[a], GripLabel(a))

DuelReset == lastOp = "toggle" /\ gameMode = DUEL
MatchOn == duelStateRef = DUEL_FIGHTING /\ BothActive

(* C30, as claimed: from a reset duel, if every frame shows each player a   *)
(* fist of unchanged handedness and the frames keep coming, both actors     *)
(* become Active and the match becomes DuelFighting.                        *)
C30_Original ==
    DuelReset ~> (MatchOn \/ (lastOp = "duel" /\ \E a \in Players : ~FistShown(a)))

(* C30, amended: from a reset duel, if in every frame the first fist among  *)
(* each player's hands has the same handedness as in every other frame and  *)
(* is the first of the player's hands with that handedness, and the frames  *)
(* keep coming, both actors become Active and the match becomes             *)
(* DuelFighting.                                                            *)
C30_DuelStarts ==
    DuelReset ~> (MatchOn \/ (lastOp = "duel" /\ \E a \in Players : ~SteadyGrip(a)))

\* the match has started on frames that showed player 1 an open Left hand
\* before the Right fist
C30_Witness ==
    /\ startEvt
    /\ MatchOn
    /\ seen["p1"] = <<OpenL, FistR>>
    /\ \A a \in Players : SteadyGrip(a)

\* the box is the face box of the nose, the fallback box of the screen's
\* left half (player 1) or of its right half (player 2)
AnchoredAt(box, nose, w, h) ==
    /\ box.w = 300 /\ box.h = 700
    /\ 10 * (box.x + 150) = (10 - nose[1]) * w
    /\ 10 * (box.y + 150) = nose[2] * h
FallbackOf(box, a, w, h) ==
    /\ box.w = 350 /\ box.h = 800
    /\ 4 * (box.x + 175) = (IF a = "p1" THEN 1 ELSE 3) * w
    /\ 5 * box.y = h
\* the player on whose side of the screen split the nose lies; on the split
\* a hand goes to player 2
SideOf(nose) == IF nose[1] > SPLIT_X THEN "p1" ELSE "p2"
BoxOf(a) == IF a = "p1" THEN geoOut[3] ELSE geoOut[1]

(* C31: in a duel frame with exactly one tracked face, the hit box of the   *)
(* player on whose side of the screen split the face lies is anchored on    *)
(* that face and the other player's hit box is the fallback rectangle of    *)
(* their side; no tracked face anchors the hit box of the player on the     *)
(* opposite side.                                                           *)
C31_FaceOnOwnSide ==
    (geoIn.kind = "box" /\ geoOut # pending) =>
        /\ Len(geoIn.faces) = 1 =>
              \A a \in Players :
                  IF a = SideOf(geoIn.faces[1])
                  THEN AnchoredAt(BoxOf(a), geoIn.faces[1], geoIn.w, geoIn.h)
                  ELSE FallbackOf(BoxOf(a), a, geoIn.w, geoIn.h)
        /\ \A a \in Players, i \in 1..Len(geoIn.faces) :
              AnchoredAt(BoxOf(a), geoIn.faces[i], geoIn.w, geoIn.h)
                  => SideOf(geoIn.faces[i]) = a

\* what a step does to the enemies: at most one is spawned, none unless the
\* game is active after the step and more than 1200 ms after the last spawn;
\* none is hit or leaves the frame unless the game is active; a step that
\* leaves the game inactive leaves the collection empty
EnemiesOnlyWhileActive ==
    /\ ~isGameActiveRef' =>
          enemiesRef' = << >> /\ SpawnSeen = 0 /\ killed' = 0 /\ fled' = 0
    /\ Len(enemiesRef') <= Len(enemiesRef) + 1
    /\ Len(enemiesRef') > Len(enemiesRef) => SpawnSeen = 1
    /\ SpawnSeen = 1 =>
          /\ lastOp' = "solo" /\ isGameActiveRef'
          /\ lastEnemySpawnTime' = now'
          /\ lastEnemySpawnTime' - lastEnemySpawnTime > ENEMY_SPAWN_INTERVAL
    /\ (isGameActiveRef /\ ~isGameActiveRef') => enemiesRef' = << >>
    /\ lastOp' = "toggle" => enemiesRef' = << >> /\ ~isGameActiveRef'

(* C32, as claimed: while the game is inactive the enemy collection is      *)
(* empty and the score does not change; enemies are spawned, moved and      *)
(* hit-tested only while the game is active, at most one per frame and more *)
(* than 1200 ms after the last one; the nod that stops the game and         *)
(* resetGame empty the collection.                                          *)
C32_Original ==
    [][/\ EnemiesOnlyWhileActive
       /\ (~isGameActiveRef /\ ~isGameActiveRef') => score' = score]_vars

(* C32, amended: while the game is inactive the enemy collection is empty   *)
(* and the score does not rise: a frame that leaves the game inactive       *)
(* leaves the score as it is, and resetGame sets it to 0; enemies are       *)
(* spawned, moved and hit-tested only while the game is active, at most one *)
(* per frame and more than 1200 ms after the last one; the nod that stops   *)
(* the game and resetGame empty the collection.                             *)
C32_InactiveGame ==
    [][/\ EnemiesOnlyWhileActive
       /\ ~isGameActiveRef' =>
             score' = (IF lastOp' = "toggle" THEN 0 ELSE score)]_vars

\* a game that counted a hit has been stopped by a nod: the collection is
\* empty and the score is still there
C32_Witness ==
    /\ lastOp = "solo"
    /\ ~isGameActiveRef
    /\ score > 0
    /\ enemiesRef = << >>
    /\ lastNodTriggerTime = now

====
